---- MODULE Spec2Model ----
(***************************************************************************)
(* Retail-analytics hybrid agent: the LangGraph workflow of                *)
(* agent/graph_hybrid.py (route, retrieve, plan, generate_sql,             *)
(* execute_sql, repair_sql, synthesize, validate), its answer parser and   *)
(* its confidence scorer, with the adapters it calls.                      *)
(*                                                                         *)
(* Conventions.                                                            *)
(*  - A text produced by the reasoning service is a sequence of lexemes    *)
(*    (digits, ".", brackets, "null", " ", the code fence, a word "x").   *)
(*  - Scores and confidences are integers in hundredths (0.01 = 1).        *)
(*  - An optional value (Python None or an object) is a sequence of        *)
(*    length 0 or 1.                                                       *)
(*  - pc is the node the graph runs next; "idle" before answer_question,   *)
(*    "END" when the graph has finished, "returned" when answer_question   *)
(*    has built its result record.                                         *)
(***************************************************************************)
EXTENDS Integers, Sequences, FiniteSets, TLC

\* ------------------------------------------------------------------------
\* Program constants
\* ------------------------------------------------------------------------
\* mutant of MAX_REPAIRS: one more repair allowed
MAX_REPAIRS_Three == 2 + 1

\* the retry limit of _check_sql_success
MAX_REPAIRS == 2
TOP_K == 3
CITE_THRESHOLD == 1
EXPLANATION_LIMIT == 200
ROWS_SHOWN == 10

\* ------------------------------------------------------------------------
\* Bounds of the model
\* ------------------------------------------------------------------------
MaxCorpus == 2

\* ------------------------------------------------------------------------
\* Small helpers
\* ------------------------------------------------------------------------
Min(a, b) == IF a <= b THEN a ELSE b
Max(a, b) == IF a >= b THEN a ELSE b

Range(s) == {s[i] : i \in 1..Len(s)}

RECURSIVE SumSeq(_)
SumSeq(s) == IF s = <<>> THEN 0 ELSE Head(s) + SumSeq(Tail(s))

RECURSIVE Pow(_, _)
Pow(b, e) == IF e = 0 THEN 1 ELSE b * Pow(b, e - 1)

\* round(num/den) to the nearest integer, ties to even (Python's round on
\* the exact quotient); num >= 0, den > 0.
RoundDiv(num, den) ==
    LET q == num \div den
        r == num % den
    IN  IF 2 * r < den THEN q
        ELSE IF 2 * r > den THEN q + 1
        ELSE IF q % 2 = 0 THEN q ELSE q + 1

\* ------------------------------------------------------------------------
\* Texts (sequences of lexemes) and the string operations the code uses
\* ------------------------------------------------------------------------
Digits == {"1", "4", "5"}
FENCE == "<fence>"
SPACE == " "

DigitVal(d) == CASE d = "1" -> 1 [] d = "4" -> 4 [] d = "5" -> 5

\* str.strip()
RECURSIVE LStrip(_)
LStrip(s) == IF s # <<>> /\ Head(s) = SPACE THEN LStrip(Tail(s)) ELSE s

RECURSIVE RStrip(_)
RStrip(s) ==
    IF s # <<>> /\ s[Len(s)] = SPACE THEN RStrip(SubSeq(s, 1, Len(s) - 1)) ELSE s

Strip(s) == RStrip(LStrip(s))

\* the longest prefix of s made of digits (a greedy digit run at the start of s)
RECURSIVE DigitPrefix(_)
DigitPrefix(s) ==
    IF s # <<>> /\ Head(s) \in Digits
    THEN <<Head(s)>> \o DigitPrefix(Tail(s))
    ELSE <<>>

\* the suffix of s that starts at its first digit (<<>> when s has none)
RECURSIVE FromFirstDigit(_)
FromFirstDigit(s) ==
    IF s = <<>> THEN <<>>
    ELSE IF Head(s) \in Digits THEN s
    ELSE FromFirstDigit(Tail(s))

\* mutant of FirstDigitRun: a single digit instead of the whole run
FirstDigitRun_Single(s) ==
    IF FromFirstDigit(s) = <<>> THEN <<>> ELSE <<Head(FromFirstDigit(s))>>

\* the first contiguous run of digits of s (regex search for one or more
\* digits), <<>> for no match
FirstDigitRun(s) == DigitPrefix(FromFirstDigit(s))

\* int() of a run of digits
RECURSIVE DigitsToInt(_)
DigitsToInt(ds) ==
    IF ds = <<>> THEN 0
    ELSE 10 * DigitsToInt(SubSeq(ds, 1, Len(ds) - 1)) + DigitVal(ds[Len(ds)])

\* the first match of digits, an optional dot, digits: its integer digits
\* and its fraction digits (both <<>> for no match)
FirstFloatMatch(s) ==
    LET t    == FromFirstDigit(s)
        ip   == DigitPrefix(t)
        rest == SubSeq(t, Len(ip) + 1, Len(t))
        fp   == IF rest # <<>> /\ Head(rest) = "."
                THEN DigitPrefix(Tail(rest)) ELSE <<>>
    IN  [int |-> ip, frac |-> fp]

\* round(float(match), 2) in hundredths, on the exact decimal value
FloatHundredths(m) ==
    LET scale == Pow(10, Len(m.frac))
        num   == DigitsToInt(m.int) * scale + DigitsToInt(m.frac)
    IN  RoundDiv(100 * num, scale)

\* ------------------------------------------------------------------------
\* Structured (JSON) texts over the lexemes: null, a number, an object
\* {} or {k: value}, an array [] or [value]; white space is allowed around
\* every value, never inside a number.
\* ------------------------------------------------------------------------
IsNumber(s) ==
    LET ip   == DigitPrefix(s)
        rest == SubSeq(s, Len(ip) + 1, Len(s))
    IN  /\ ip # <<>>
        /\ \/ rest = <<>>
           \/ /\ Head(rest) = "."
              /\ Tail(rest) # <<>>
              /\ DigitPrefix(Tail(rest)) = Tail(rest)

Inner(s) == SubSeq(s, 2, Len(s) - 1)

\* json.loads(s) succeeds
RECURSIVE IsJson(_)
IsJson(s) ==
    LET t == Strip(s)
    IN  \/ t = <<"null">>
        \/ IsNumber(t)
        \/ /\ Len(t) >= 2 /\ t[1] = "{" /\ t[Len(t)] = "}"
           /\ \/ Strip(Inner(t)) = <<>>
              \/ LET b == Strip(Inner(t))
                 IN  Head(b) = "k:" /\ IsJson(Tail(b))
        \/ /\ Len(t) >= 2 /\ t[1] = "[" /\ t[Len(t)] = "]"
           /\ \/ Strip(Inner(t)) = <<>>
              \/ IsJson(Inner(t))

\* the lexemes of s without white space (the value a structured text denotes
\* does not depend on its white space)
RECURSIVE Squeeze(_)
Squeeze(s) ==
    IF s = <<>> THEN <<>>
    ELSE IF Head(s) = SPACE THEN Squeeze(Tail(s))
    ELSE <<Head(s)>> \o Squeeze(Tail(s))

\* Python None
NoneVal == [t |-> "NoneType", v |-> <<>>]

\* json.loads(s) for a text with IsJson(s): the Python value, as its type
\* name and its canonical lexemes
JsonValue(s) ==
    LET t == Strip(s)
    IN  IF t = <<"null">> THEN NoneVal
        ELSE IF t[1] = "{" THEN [t |-> "dict", v |-> Squeeze(t)]
        ELSE IF t[1] = "[" THEN [t |-> "list", v |-> Squeeze(t)]
        ELSE IF "." \in Range(t) THEN [t |-> "float", v |-> t]
        ELSE [t |-> "int", v |-> <<DigitsToInt(t)>>]

\* the first index >= i of s holding lexeme c, 0 when there is none
RECURSIVE IndexFrom(_, _, _)
IndexFrom(s, c, i) ==
    IF i > Len(s) THEN 0
    ELSE IF s[i] = c THEN i
    ELSE IndexFrom(s, c, i + 1)

Closer(c) == IF c = "{" THEN "}" ELSE "]"

\* the first match of a brace- or bracket-delimited substring, the
\* shortest one at the leftmost position that has one (non-greedy search
\* for "{...}" or "[...]"); <<>> for no match
RECURSIVE FirstDelimited(_, _)
FirstDelimited(s, i) ==
    IF i > Len(s) THEN <<>>
    ELSE IF s[i] \in {"{", "["} /\ IndexFrom(s, Closer(s[i]), i + 1) > 0
         THEN SubSeq(s, i, IndexFrom(s, Closer(s[i]), i + 1))
         ELSE FirstDelimited(s, i + 1)

\* ------------------------------------------------------------------------
\* Answer parser
\* ------------------------------------------------------------------------
RecordHint == "{category:str, quantity:int}"
ListHint == "list[{product:str, revenue:float}]"
FormatHints == {"int", "float", RecordHint, ListHint, "str"}

\* format_hint.startswith("{") or format_hint.startswith("list[")
IsStructuredHint(h) == h \in {RecordHint, ListHint}

StrVal(s) == [t |-> "str", v |-> s]

\* an exception raised inside the try block of _parse_answer, as a value
Raised(e) == [t |-> "raise", v |-> <<e>>]

EmptyRecord == [t |-> "dict", v |-> <<"{", "}">>]

\* the record/list branch of _parse_answer on the trimmed text s
ParseStructured(s) ==
    IF FENCE \in Range(s)
    THEN \* the search of the fenced block names the regex module, which the
         \* function binds only in branches that have not run
         Raised("UnboundLocalError")
    ELSE IF IsJson(s) THEN JsonValue(s)
    ELSE LET m == FirstDelimited(s, 1)
         IN  IF m = <<>> THEN EmptyRecord
             ELSE IF IsJson(m) THEN JsonValue(m)
             ELSE \* json.loads raises inside the inner handler
                  Raised("JSONDecodeError")

\* the body of the try block of _parse_answer on the trimmed text s
ParseBody(s, hint) ==
    IF hint = "int"
    THEN [t |-> "int", v |-> <<DigitsToInt(FirstDigitRun(s))>>]
    ELSE IF hint = "float"
    THEN [t |-> "float", v |-> <<FloatHundredths(FirstFloatMatch(s))>>]
    ELSE IF IsStructuredHint(hint) THEN ParseStructured(s)
    ELSE StrVal(s)

\* mutant of _parse_answer: the outer handler left out
ParseAnswer_NoHandler(answer_str, hint) == ParseBody(Strip(answer_str), hint)

_parse_answer(answer_str, hint) ==
    LET s == Strip(answer_str)
        r == ParseBody(s, hint)
    IN  IF r.t = "raise" THEN StrVal(s) ELSE r

\* ------------------------------------------------------------------------
\* Retrieval Adapter (SimpleRetriever)
\* ------------------------------------------------------------------------
\* chunk_id = f"{file_name}::chunk{idx}" of the i-th stored chunk
ChunkId(i) == "product_policy::chunk" \o ToString(i - 1)

ChunkIds == {ChunkId(i) : i \in 1..MaxCorpus}

\* cosine similarities the model draws from, in hundredths
ScoreSet == {1, 60}

\* the index the descending argsort puts first among the indices idx: the
\* greatest similarity, the greatest index among equals (a stable ascending
\* sort read backwards)
BestIndex(sims, idx) ==
    CHOOSE i \in idx :
        \A j \in idx : sims[j] < sims[i] \/ (sims[j] = sims[i] /\ j <= i)

\* np.argsort(similarities)[::-1][:top_k]
RECURSIVE TopIndices(_, _, _)
TopIndices(sims, idx, k) ==
    IF k = 0 \/ idx = {} THEN <<>>
    ELSE LET b == BestIndex(sims, idx)
         IN  <<b>> \o TopIndices(sims, idx \ {b}, k - 1)

\* mutant of retrieve: the argsort read forwards, lowest similarity first
retrieve_Ascending(sims, top_k) ==
    LET top == TopIndices([i \in DOMAIN sims |-> 0 - sims[i]], DOMAIN sims, top_k)
    IN  [n \in 1..Len(top) |-> [id |-> ChunkId(top[n]), score |-> sims[top[n]]]]

\* SimpleRetriever.retrieve: fresh chunks carrying the similarity as score
retrieve(sims, top_k) ==
    LET top == TopIndices(sims, DOMAIN sims, top_k)
    IN  [n \in 1..Len(top) |-> [id |-> ChunkId(top[n]), score |-> sims[top[n]]]]

\* ------------------------------------------------------------------------
\* Data Adapter (NorthwindDB) on the fixed database
\* ------------------------------------------------------------------------
Q_BAD == "SELEC COUNT(*) FROM Orders"
Q_EMPTY == "SELECT OrderID FROM Orders WHERE 1 = 0"
Q_JOIN == "SELECT p.ProductName FROM Products p JOIN Orders o ON 1 = 1"

Q_COUNT == "SELECT COUNT(*) FROM Orders"

Queries == {Q_BAD, Q_EMPTY, Q_JOIN, Q_COUNT}

\* sorted(set(tables)) of the known tables named in the query
_extract_tables_from_sql(sql) ==
    IF sql = Q_JOIN THEN <<"Orders", "Products">> ELSE <<"Orders">>

\* number of rows sqlite returns for a query that executes
RowCount(sql) ==
    CASE sql = Q_EMPTY -> 0
      [] sql = Q_JOIN -> 12
      [] sql = Q_COUNT -> 1

Columns(sql) ==
    CASE sql = Q_EMPTY -> <<"OrderID">>
      [] sql = Q_JOIN -> <<"ProductName">>
      [] sql = Q_COUNT -> <<"COUNT(*)">>

NoError == "None"

\* the error sqlite raises for a query it rejects
SqliteError(sql) == "near SELEC: syntax error"

\* the try block of execute_query: the result of a query that executes
\* (rows is the number of rows fetched), or the exception raised
ExecuteBody(sql) ==
    IF sql \in {Q_EMPTY, Q_JOIN, Q_COUNT}
    THEN [success |-> TRUE, columns |-> Columns(sql), rows |-> RowCount(sql),
          error |-> NoError, tables_used |-> _extract_tables_from_sql(sql)]
    ELSE [t |-> "raise", v |-> <<SqliteError(sql)>>]

\* mutant of execute_query: the failure result without the error message
execute_query_NoMessage(sql) ==
    LET r == ExecuteBody(sql)
    IN  IF "t" \in DOMAIN r
        THEN [success |-> FALSE, columns |-> <<>>, rows |-> 0,
              error |-> NoError, tables_used |-> <<>>]
        ELSE r

\* NorthwindDB.execute_query: every exception of the try block becomes a
\* failure result carrying str(e)
execute_query(sql) ==
    LET r == ExecuteBody(sql)
    IN  IF "t" \in DOMAIN r
        THEN [success |-> FALSE, columns |-> <<>>, rows |-> 0,
              error |-> r.v[1], tables_used |-> <<>>]
        ELSE r

\* ------------------------------------------------------------------------
\* Confidence Scorer, in exact arithmetic: terms are in units of 0.0001,
\* scaled by 2n (n = number of chunks) so the document term is an integer
\* ------------------------------------------------------------------------
BASE == 5500
DOC_CAP == 3500
DOC_FLOOR == 2000
SQL_FULL == 3500
SQL_EMPTY == 1500
CIT_BASE == 600
CIT_STEP == 300
CIT_TABLE == 200
UNIT == 100 * 100

\* "::" in c
IsFragmentId(c) == c \in ChunkIds

\* doc_score * 2n: min(0.35, 0.2 + 0.5 * avg_score * 0.35)
DocScore(chunks) ==
    IF chunks = <<>> THEN 0
    ELSE LET n == Len(chunks)
             S == SumSeq([i \in 1..n |-> chunks[i].score])
         IN  Min(DOC_CAP * 2 * n, DOC_FLOOR * 2 * n + 35 * S)

SqlScore(res) ==
    IF res = <<>> THEN 0
    ELSE IF res[1].success /\ res[1].rows > 0 THEN SQL_FULL
    ELSE IF res[1].success THEN SQL_EMPTY
    ELSE 0

CitScore(cits) ==
    IF cits = <<>> THEN 0
    ELSE CIT_BASE + Min(CIT_BASE, CIT_STEP * Len(cits))
         + (IF \E i \in 1..Len(cits) : ~IsFragmentId(cits[i]) THEN CIT_TABLE ELSE 0)

\* mutant of Clamp01: the upper clamp left out
Clamp01_NoUpper(num, den) == IF num < 0 THEN <<0, den>> ELSE <<num, den>>

\* max(0.0, min(1.0, num/den)) as a fraction <<num, den>>
Clamp01(num, den) ==
    IF num > den THEN <<den, den>> ELSE IF num < 0 THEN <<0, den>> ELSE <<num, den>>

\* mutant of _calculate_confidence: each repair discounts by 0.8
CalculateConfidence_SteeperPenalty(chunks, res, cits, repairs) ==
    LET n   == Max(1, Len(chunks))
        sum == (BASE + SqlScore(res) + CitScore(cits)) * 2 * n + DocScore(chunks)
        num == sum * Pow(8, repairs)
        den == UNIT * 2 * n * Pow(10, repairs)
        c   == Clamp01(num, den)
    IN  RoundDiv(100 * c[1], c[2])

\* HybridAgent._calculate_confidence on the fields of the state it reads;
\* the result is in hundredths
_calculate_confidence(chunks, res, cits, repairs) ==
    LET n   == Max(1, Len(chunks))
        sum == (BASE + SqlScore(res) + CitScore(cits)) * 2 * n + DocScore(chunks)
        num == sum * Pow(9, repairs)
        den == UNIT * 2 * n * Pow(10, repairs)
        c   == Clamp01(num, den)
    IN  RoundDiv(100 * c[1], c[2])

\* ------------------------------------------------------------------------
\* Reasoning Service Adapter: the outputs the model draws from
\* ------------------------------------------------------------------------
\* a question is the sequence of its words
QUESTION_POLICY ==
    <<"What", "is", "the", "return", "policy", "window", "for", "beverages?">>
QUESTION_TOP == <<"Top", "3", "products", "by", "total", "revenue">>
QUESTION_CAMPAIGN == <<"Total", "revenue", "during", "the", "summer", "campaign">>

\* questions a run is asked
Questions == {QUESTION_POLICY, QUESTION_TOP}

\* str.lower() of a word
Lower(w) ==
    CASE w = "What" -> "what"
      [] w = "Top" -> "top"
      [] w = "Total" -> "total"
      [] w = "Return" -> "return"
      [] w = "SQL" -> "sql"
      [] w = "Hybrid" -> "hybrid"
      [] OTHER -> w

\* the keyword lists of the fallback logic of Router.forward
DOC_WORDS == {"policy", "return", "window", "days", "definition"}
AGG_WORDS == {"revenue", "top", "total", "sum", "count"}
TEMPORAL_WORDS == {"during", "campaign", "marketing", "calendar"}

\* the keywords that are substrings of a lower-case word: the word itself,
\* and those a longer word holds
KeywordsIn(w) ==
    CASE w = "summer" -> {"summer", "sum"}
      [] w = "returned" -> {"return"}
      [] w = "countries" -> {"count"}
      [] w = "discount" -> {"count"}
      [] w = "stopped" -> {"top"}
      [] w = "orders" -> {"orders"}
      [] w = "integer" -> {"int"}
      [] w = "format_hint" -> {"int"}
      [] w = "sqlite" -> {"sql"}
      [] w = "sql_query" -> {"sql"}
      [] w = "sql_result" -> {"sql"}
      [] w = "failed_sql" -> {"sql"}
      [] w = "refined_sql" -> {"refine", "sql"}
      [] w = "original_question" -> {"question"}
      [] w = "constraints" -> {"constraint", "int"}
      [] w = "routes" -> {"route"}
      [] w = "beverages?" -> {"beverages"}
      [] OTHER -> {w}

\* keyword in question.lower(): a substring test; a keyword has no blank,
\* so it lies inside one word
Contains(q, keyword) == \E i \in 1..Len(q) : keyword \in KeywordsIn(Lower(q[i]))

\* any(word in question.lower() for word in [...]) for the three lists
HasDocWord(q) == \E w \in DOC_WORDS : Contains(q, w)
HasAggWord(q) == \E w \in AGG_WORDS : Contains(q, w)
HasTemporalWord(q) == \E w \in TEMPORAL_WORDS : Contains(q, w)

RouteLabels == {"rag", "sql", "hybrid"}

\* texts the route-classification task may return (words and blanks)
RouteOutputs ==
    { <<"rag">>, <<"sql">>, <<"hybrid">>, <<SPACE, "SQL", SPACE>>, <<"both">>, <<>> }

\* mutant of LowerStrip: the lower-casing left out
LowerStrip_NoLower(out) == Strip(out)

\* result.route.lower().strip()
LowerStrip(out) == Strip([i \in 1..Len(out) |-> Lower(out[i])])

\* mutant of Router_forward: the aggregate words tested before the
\* document words
Router_forward_AggFirst(q, out) ==
    LET r == LowerStrip(out)
    IN  IF Len(r) = 1 /\ r[1] \in RouteLabels THEN r[1]
        ELSE IF HasAggWord(q)
             THEN (IF HasTemporalWord(q) THEN "hybrid" ELSE "sql")
        ELSE IF HasDocWord(q) THEN "rag"
        ELSE "hybrid"

\* Router.forward
Router_forward(q, out) ==
    LET r == LowerStrip(out)
    IN  IF Len(r) = 1 /\ r[1] \in RouteLabels THEN r[1]
        ELSE IF HasDocWord(q) THEN "rag"
        ELSE IF HasAggWord(q)
             THEN (IF HasTemporalWord(q) THEN "hybrid" ELSE "sql")
        ELSE "hybrid"

\* ------------------------------------------------------------------------
\* Rule-based responder (FallbackLM).  A prompt is the sequence of the words
\* of the task's signature followed by the words of its inputs.
\* ------------------------------------------------------------------------
Tasks == {"route", "generate_sql", "refine_sql", "synthesize", "extract_constraints"}

\* the words of the signature classes (docstring, field names, field
\* descriptions)
Signature(task) ==
    CASE task = "route" ->
           <<"classify", "whether", "a", "query", "needs", "rag", "sql", "or",
             "both", "hybrid", "question", "answered", "from", "documents",
             "only", "policies", "definitions", "dates", "database", "queries",
             "numerical", "analysis", "context", "constraints", "numbers",
             "question", "reasoning", "route">>
      [] task = "generate_sql" ->
           <<"generate", "sqlite", "query", "for", "northwind", "database",
             "rules", "use", "exact", "table", "names", "orders", "order",
             "details", "products", "customers", "categories", "revenue",
             "formula", "sum", "unitprice", "quantity", "discount", "always",
             "use", "proper", "joins", "return", "only", "valid", "sqlite",
             "syntax", "question", "schema", "context", "sql_query">>
      [] task = "refine_sql" ->
           <<"fix", "a", "sql", "query", "that", "failed", "or", "returned",
             "incorrect", "results", "original_question", "failed_sql",
             "error_message", "schema", "refined_sql">>
      [] task = "synthesize" ->
           <<"synthesize", "a", "typed", "formatted", "answer", "with",
             "citations", "the", "answer", "must", "match", "the",
             "format_hint", "exactly", "int", "return", "plain", "integer",
             "float", "return", "float", "rounded", "dict", "with", "exact",
             "keys", "list", "return", "list", "of", "dicts", "question",
             "format_hint", "doc_context", "sql_result", "reasoning", "answer">>
      [] task = "extract_constraints" ->
           <<"extract", "constraints", "from", "question", "and", "documents",
             "for", "sql", "generation", "date", "ranges", "categories",
             "beverages", "condiments", "kpi", "formulas", "aov", "gross",
             "margin", "customer", "product", "filters", "question",
             "doc_context", "constraints">>

Prompt(task, inputs) == Signature(task) \o inputs

\* the output field of the signature that the caller of the task reads
PrimaryField(task) ==
    CASE task = "route" -> "route"
      [] task = "generate_sql" -> "sql_query"
      [] task = "refine_sql" -> "refined_sql"
      [] task = "synthesize" -> "answer"
      [] task = "extract_constraints" -> "constraints"

\* phrase in prompt_lower, for a phrase of one or more words
Has(prompt, phrase) ==
    IF Len(phrase) = 1 THEN Contains(prompt, phrase[1])
    ELSE \E i \in 1..(Len(prompt) - Len(phrase) + 1) :
             \A k \in 1..Len(phrase) : Lower(prompt[i + k - 1]) = phrase[k]

FB_SQL_COUNT == "SELECT COUNT(*) FROM Orders"
FB_SQL_COUNT_AS == "SELECT COUNT(*) as count FROM Orders"
FB_SQL_DETAILS == "SELECT COUNT(*) FROM \"Order Details\""
FB_SQL_TOP3 ==
    "SELECT p.ProductName as product, SUM(od.UnitPrice * od.Quantity * (1 - od.Discount)) as revenue FROM Products p JOIN \"Order Details\" od ON p.ProductID = od.ProductID GROUP BY p.ProductName ORDER BY revenue DESC LIMIT 3"
FB_SQL_AOV ==
    "SELECT SUM(od.UnitPrice * od.Quantity * (1 - od.Discount)) / COUNT(DISTINCT o.OrderID) as aov FROM Orders o JOIN \"Order Details\" od ON o.OrderID = od.OrderID WHERE o.OrderDate >= \"1997-12-01\" AND o.OrderDate <= \"1997-12-31\""
FB_SQL_CATEGORY ==
    "SELECT c.CategoryName as category, SUM(od.Quantity) as quantity FROM Categories c JOIN Products p ON c.CategoryID = p.CategoryID JOIN \"Order Details\" od ON p.ProductID = od.ProductID JOIN Orders o ON od.OrderID = o.OrderID WHERE o.OrderDate >= \"1997-06-01\" AND o.OrderDate <= \"1997-06-30\" GROUP BY c.CategoryName ORDER BY quantity DESC"
FB_SQL_BEVERAGES ==
    "SELECT SUM(od.UnitPrice * od.Quantity * (1 - od.Discount)) as revenue FROM Categories c JOIN Products p ON c.CategoryID = p.CategoryID JOIN \"Order Details\" od ON p.ProductID = od.ProductID JOIN Orders o ON od.OrderID = o.OrderID WHERE c.CategoryName = \"Beverages\" AND o.OrderDate >= \"1997-06-01\" AND o.OrderDate <= \"1997-06-30\""
FB_SQL_MARGIN ==
    "SELECT c.CompanyName as customer, SUM((od.UnitPrice - od.UnitPrice * 0.7) * od.Quantity * (1 - od.Discount)) as margin FROM Customers c JOIN Orders o ON c.CustomerID = o.CustomerID JOIN \"Order Details\" od ON o.OrderID = od.OrderID WHERE strftime('%Y', o.OrderDate) = '1997' GROUP BY c.CompanyName ORDER BY margin DESC LIMIT 1"

\* mutant of FallbackRoute: revenue tested before policy and return
FallbackRoute_RevenueFirst(prompt) ==
    IF Has(prompt, <<"revenue">>) /\ (Has(prompt, <<"during">>) \/ Has(prompt, <<"campaign">>))
    THEN "hybrid"
    ELSE IF Has(prompt, <<"revenue">>) \/ Has(prompt, <<"top">>) THEN "sql"
    ELSE IF Has(prompt, <<"policy">>) \/ Has(prompt, <<"return">>) THEN "rag"
    ELSE "hybrid"

\* the route the responder gives to a route-classification prompt
FallbackRoute(prompt) ==
    IF Has(prompt, <<"policy">>) \/ Has(prompt, <<"return">>) THEN "rag"
    ELSE IF Has(prompt, <<"revenue">>) /\ (Has(prompt, <<"during">>) \/ Has(prompt, <<"campaign">>))
    THEN "hybrid"
    ELSE IF Has(prompt, <<"revenue">>) \/ Has(prompt, <<"top">>) THEN "sql"
    ELSE "hybrid"

FallbackRouteReasoning(prompt) ==
    IF Has(prompt, <<"policy">>) \/ Has(prompt, <<"return">>)
    THEN "Question asks about policy which is in documents."
    ELSE IF Has(prompt, <<"revenue">>) /\ (Has(prompt, <<"during">>) \/ Has(prompt, <<"campaign">>))
    THEN "Needs date context from docs and revenue from database."
    ELSE IF Has(prompt, <<"revenue">>) \/ Has(prompt, <<"top">>)
    THEN "Pure numerical query from database."
    ELSE "May need both docs and database."

FallbackSql(prompt) ==
    IF Has(prompt, <<"top", "3", "products">>) \/ Has(prompt, <<"top", "3">>)
    THEN FB_SQL_TOP3
    ELSE IF Has(prompt, <<"count">>) /\ Has(prompt, <<"orders">>) THEN FB_SQL_COUNT_AS
    ELSE IF Has(prompt, <<"aov">>) \/ Has(prompt, <<"average", "order", "value">>)
    THEN FB_SQL_AOV
    ELSE IF Has(prompt, <<"category">>) /\ Has(prompt, <<"quantity">>) THEN FB_SQL_CATEGORY
    ELSE IF Has(prompt, <<"beverages">>) /\ Has(prompt, <<"revenue">>) THEN FB_SQL_BEVERAGES
    ELSE IF Has(prompt, <<"customer">>) /\ Has(prompt, <<"margin">>) THEN FB_SQL_MARGIN
    ELSE FB_SQL_COUNT

FB_ANSWER_LIST ==
    "[{\"product\": \"Côte de Blaye\", \"revenue\": 141396.74}, {\"product\": \"Thüringer Rostbratwurst\", \"revenue\": 80368.67}, {\"product\": \"Raclette Courdavault\", \"revenue\": 71155.70}]"

FallbackAnswer(prompt) ==
    IF Has(prompt, <<"int">>)
    THEN IF Has(prompt, <<"beverages">>)
            /\ (Has(prompt, <<"unopened">>) \/ Has(prompt, <<"return">>))
         THEN "14" ELSE "42"
    ELSE IF Has(prompt, <<"float">>) THEN "1234.56"
    ELSE IF Has(prompt, <<"{">>) \/ Has(prompt, <<"dict">>)
    THEN IF Has(prompt, <<"category">>)
         THEN "{\"category\": \"Beverages\", \"quantity\": 2057}"
         ELSE IF Has(prompt, <<"customer">>)
         THEN "{\"customer\": \"Save-a-lot Markets\", \"margin\": 12345.67}"
         ELSE "{\"key\": \"value\"}"
    ELSE IF Has(prompt, <<"list">>) THEN FB_ANSWER_LIST
    ELSE "result"

FallbackAnswerReasoning(prompt) ==
    IF Has(prompt, <<"int">>)
    THEN IF Has(prompt, <<"beverages">>)
            /\ (Has(prompt, <<"unopened">>) \/ Has(prompt, <<"return">>))
         THEN "According to product policy, unopened beverages have 14-day return window."
         ELSE "Based on the data."
    ELSE IF Has(prompt, <<"float">>)
    THEN IF Has(prompt, <<"aov">>)
         THEN "Calculated from order totals divided by order count."
         ELSE "Computed from database."
    ELSE IF Has(prompt, <<"{">>) \/ Has(prompt, <<"dict">>)
    THEN IF Has(prompt, <<"category">>) THEN "Top category by quantity sold."
         ELSE IF Has(prompt, <<"customer">>) THEN "Customer with highest margin."
         ELSE "Result object."
    ELSE IF Has(prompt, <<"list">>) THEN "Top 3 products by total revenue."
    ELSE "Processed query."

FallbackConstraints(prompt) ==
    IF Has(prompt, <<"summer">>)
    THEN "Date range: 1997-06-01 to 1997-06-30, Focus on Beverages and Condiments categories"
    ELSE IF Has(prompt, <<"winter">>)
    THEN "Date range: 1997-12-01 to 1997-12-31, Focus on Dairy Products and Confections"
    ELSE "No specific constraints found"

\* FallbackLM.__call__: the record it returns (as JSON text)
FallbackLM(prompt) ==
    IF Has(prompt, <<"routequery">>)
       \/ (Has(prompt, <<"route">>) /\ Has(prompt, <<"question">>))
    THEN [reasoning |-> FallbackRouteReasoning(prompt),
          route |-> FallbackRoute(prompt)]
    ELSE IF Has(prompt, <<"generatesql">>)
            \/ (Has(prompt, <<"generate">>) /\ Has(prompt, <<"sql">>))
    THEN [sql_query |-> FallbackSql(prompt)]
    ELSE IF Has(prompt, <<"refinesql">>)
            \/ (Has(prompt, <<"refine">>) /\ Has(prompt, <<"sql">>))
    THEN [refined_sql |->
              IF Has(prompt, <<"order", "details">>) THEN FB_SQL_DETAILS ELSE FB_SQL_COUNT]
    ELSE IF Has(prompt, <<"synthesizeanswer">>)
            \/ (Has(prompt, <<"synthesize">>) /\ Has(prompt, <<"answer">>))
    THEN [reasoning |-> FallbackAnswerReasoning(prompt),
          answer |-> FallbackAnswer(prompt)]
    ELSE IF Has(prompt, <<"extractconstraints">>)
            \/ (Has(prompt, <<"extract">>) /\ Has(prompt, <<"constraint">>))
    THEN [constraints |-> FallbackConstraints(prompt)]
    ELSE [response |-> "Generated response based on input."]

NO_CONTEXT == "No document context available."

\* texts the constraint-extraction task may return
ConstraintOutputs == {"", "Date range: 1997-06-01 to 1997-06-30"}

\* answer texts the synthesis task may return
AnswerTexts ==
    { <<"x", SPACE, "1", "4">>,
      <<"x">>,
      <<"null">>,
      <<SPACE, "{", "k:", "1", "}">>,
      <<FENCE, "{", "}", FENCE>> }

\* lengths of the reasoning text the synthesis task may return
ReasoningLengths == {40, 250}

\* ------------------------------------------------------------------------
\* State
\* ------------------------------------------------------------------------
VARIABLES
    corpus,            \* number of chunks the retriever holds (self.chunks)
    pc,                \* next node of the graph
    question, format_hint, route,
    retrieved_chunks, doc_context, constraints,
    sql_query, sql_result, sql_attempts,
    final_answer, reasoning, confidence, citations,
    repair_count,
    errors,            \* channel with reducer operator.add
    trace_events,      \* channel with reducer operator.add
    output,            \* the result record of answer_question
    steps,             \* the nodes executed in this run, in order
    retrieveCalls,     \* calls of retriever.retrieve in this run
    executeCalls,      \* calls of db.execute_query in this run
    lm_log,            \* reasoning-service calls of this run, in order
    lm_out,            \* text of the reasoning service a function is applied to
    questions,         \* main: the records loaded from the batch file
    idx,               \* main: position of the loop in questions
    results,           \* main: the result records collected so far
    exc,               \* the exception a raising call propagates
    written,           \* main: the records written to the output file
    call_count,        \* FallbackLM.call_count
    thread,            \* question_id of the call in progress: the thread_id
    store,             \* the chunks the retriever holds (self.chunks)
    saved,             \* MemorySaver: the reducer channels of the threads
                       \* other than the one in progress
    calls,             \* calls of answer_question on this agent so far
    files,             \* what HybridAgent() finds on disk
    backend,           \* the language model dspy is configured with
    parked             \* the state of a second call that is not being stepped

\* the state of the agent that is shared by its calls
agentVars == <<store, saved, calls, files, backend, parked>>

\* the locals of main, the drawn input of the function specifications and
\* the state of the agent outside the graph state
mainVars == <<lm_out, questions, idx, results, exc, written, call_count, thread,
              agentVars>>

vars == <<mainVars, corpus, pc, question, format_hint, route, retrieved_chunks,
          doc_context, constraints, sql_query, sql_result, sql_attempts,
          final_answer, reasoning, confidence, citations, repair_count,
          errors, trace_events, output, steps, retrieveCalls, executeCalls,
          lm_log>>

Event(node, meta) == [node |-> node, meta |-> meta]

LmCall(task, args) == [task |-> task, args |-> args]

\* the fields answer_question puts in initial_state
InitialState ==
    /\ route = ""
    /\ retrieved_chunks = <<>>
    /\ doc_context = <<>>
    /\ constraints = ""
    /\ sql_query = ""
    /\ sql_result = <<>>
    /\ sql_attempts = 0
    /\ final_answer = NoneVal
    /\ reasoning = 0
    /\ confidence = 0
    /\ citations = <<>>
    /\ repair_count = 0
    /\ errors = <<>>
    /\ trace_events = <<>>

\* self.chunks after _load_and_chunk_documents: every chunk has score 0.0
StoredChunks(n) == [i \in 1..n |-> [id |-> ChunkId(i), score |-> 0]]

\* the reducer channels of a thread that has no checkpoint
EmptyChannels == [errors |-> <<>>, trace_events |-> <<>>]

\* MemorySaver() at compile time: no thread has a checkpoint
NoCheckpoints == [id \in {} |-> EmptyChannels]

\* documents directory and database file as the agent expects them
FilesOk == [docs |-> "ok", db |-> TRUE]

\* the agent is constructed and has answered no question
AgentReady ==
    /\ store = StoredChunks(corpus)
    /\ thread = ""
    /\ saved = NoCheckpoints
    /\ calls = 0
    /\ files = FilesOk
    /\ backend = "ollama"
    /\ parked = <<>>

\* main is not running and the responder has not been called
NoMain ==
    /\ AgentReady
    /\ questions = <<>>
    /\ idx = 1
    /\ results = <<>>
    /\ exc = <<>>
    /\ written = <<>>
    /\ call_count = 0

\* no batch is being processed and no function input is drawn
NoBatch == lm_out = <<>> /\ NoMain

\* after HybridAgent(): the corpus is loaded (at least one chunk, or the
\* constructor raises), no question has been asked
Init ==
    /\ corpus \in 1..MaxCorpus
    /\ pc = "idle"
    /\ question = <<>>
    /\ format_hint = ""
    /\ InitialState
    /\ output = <<>>
    /\ steps = <<>>
    /\ retrieveCalls = 0
    /\ executeCalls = 0
    /\ lm_log = <<>>
    /\ NoBatch

\* ------------------------------------------------------------------------
\* Edges of the graph (_build_graph) and their decision functions
\* ------------------------------------------------------------------------
\* mutant of _route_decision: every run sent through retrieval
RouteDecision_AlwaysHybrid(rt) == "hybrid"

_route_decision(rt) == rt

\* mutant of RouteEdge: the sql route sent through retrieval
RouteEdge_SqlRetrieves(label) == "retrieve"

RouteEdge(label) ==
    CASE label = "rag" -> "retrieve"
      [] label = "sql" -> "plan"
      [] label = "hybrid" -> "retrieve"

\* mutant of _needs_sql: the hybrid route forgotten
NeedsSql_SqlOnly(rt) == IF rt = "sql" THEN "yes" ELSE "no"

_needs_sql(rt) == IF rt \in {"sql", "hybrid"} THEN "yes" ELSE "no"

PlanEdge(label) ==
    CASE label = "yes" -> "generate_sql"
      [] label = "no" -> "synthesize"

\* mutants of _check_sql_success: a retry still granted at the limit; an
\* empty successful result accepted as a success
CheckSqlSuccess_RetryAtLimit(res, repairs) ==
    IF res = <<>> THEN "fail"
    ELSE IF res[1].success /\ res[1].rows > 0 THEN "success"
    ELSE IF repairs <= MAX_REPAIRS THEN "retry"
    ELSE "fail"

CheckSqlSuccess_EmptyIsSuccess(res, repairs) ==
    IF res = <<>> THEN "fail"
    ELSE IF res[1].success THEN "success"
    ELSE IF repairs < MAX_REPAIRS THEN "retry"
    ELSE "fail"

_check_sql_success(res, repairs) ==
    IF res = <<>> THEN "fail"
    ELSE IF res[1].success /\ res[1].rows > 0 THEN "success"
    ELSE IF repairs < MAX_REPAIRS THEN "retry"
    ELSE "fail"

ExecuteEdge(label) ==
    CASE label = "success" -> "synthesize"
      [] label = "retry" -> "repair_sql"
      [] label = "fail" -> "synthesize"

\* mutant of _check_synthesis: the answer sent back for another synthesis
CheckSynthesis_Retry == "retry"

_check_synthesis == "done"

SynthesizeEdge(label) ==
    CASE label = "valid" -> "validate"
      [] label = "retry" -> "synthesize"
      [] label = "done" -> "validate"

\* ------------------------------------------------------------------------
\* answer_question: the initial state and the start of the graph
\* ------------------------------------------------------------------------
\* graph.invoke(initial_state, config) on a compiled graph with a
\* checkpointer: the input is written to the channels of the thread, which
\* for errors and trace_events adds it to the value the checkpoint holds
answer_question(q, hint, question_id) ==
    /\ pc = "idle"
    /\ thread' = question_id
    /\ calls' = calls + 1
    /\ LET cps == IF thread = "" THEN saved
                  ELSE (thread :> [errors |-> errors, trace_events |-> trace_events])
                           @@ saved
           channels == IF question_id \in DOMAIN cps THEN cps[question_id]
                       ELSE EmptyChannels
       IN  /\ saved' = cps
           /\ errors' = channels.errors \o <<>>
           /\ trace_events' = channels.trace_events \o <<>>
    /\ question' = q
    /\ format_hint' = hint
    /\ route' = ""
    /\ retrieved_chunks' = <<>>
    /\ doc_context' = <<>>
    /\ constraints' = ""
    /\ sql_query' = ""
    /\ sql_result' = <<>>
    /\ sql_attempts' = 0
    /\ final_answer' = NoneVal
    /\ reasoning' = 0
    /\ confidence' = 0
    /\ citations' = <<>>
    /\ repair_count' = 0
    /\ steps' = <<>>
    /\ retrieveCalls' = 0
    /\ executeCalls' = 0
    /\ lm_log' = <<>>
    /\ pc' = "route"
    /\ UNCHANGED <<lm_out, questions, idx, results, exc, written, call_count>>
    /\ UNCHANGED <<store, files, backend, parked, corpus, output>>

\* ------------------------------------------------------------------------
\* Nodes.  A node returns the whole state: a field it did not assign is
\* written back with the value it read, which the reducer of errors and
\* trace_events (operator.add) appends to the channel.
\* ------------------------------------------------------------------------
_route_node(out) ==
    /\ pc = "route"
    /\ route' = Router_forward(question, out)
    /\ trace_events' = trace_events \o <<Event("route", <<route'>>)>>
    /\ repair_count' = 0
    /\ sql_attempts' = 0
    /\ errors' = errors \o <<>>
    /\ lm_log' = Append(lm_log, LmCall("route", <<question>>))
    /\ steps' = Append(steps, "route")
    /\ pc' = RouteEdge(_route_decision(route'))
    /\ UNCHANGED <<mainVars, corpus, question, format_hint, retrieved_chunks, doc_context,
                   constraints, sql_query, sql_result, final_answer, reasoning,
                   confidence, citations, output, retrieveCalls, executeCalls>>

\* mutant of _retrieve_node: the route rewritten once documents are found
RetrieveNode_Reroute(sims) ==
    /\ pc = "retrieve"
    /\ retrieved_chunks' = retrieve(sims, TOP_K)
    /\ doc_context' = [i \in 1..Len(retrieved_chunks') |-> retrieved_chunks'[i].id]
    /\ route' = IF retrieved_chunks' # <<>> THEN "rag" ELSE route
    /\ trace_events' =
           trace_events \o <<Event("retrieve", <<Len(retrieved_chunks')>>)>>
    /\ errors' = errors \o errors
    /\ retrieveCalls' = retrieveCalls + 1
    /\ steps' = Append(steps, "retrieve")
    /\ pc' = "plan"
    /\ UNCHANGED <<mainVars, corpus, question, format_hint, constraints, sql_query,
                   sql_result, sql_attempts, final_answer, reasoning, confidence,
                   citations, repair_count, output, executeCalls, lm_log>>

_retrieve_node(sims) ==
    /\ pc = "retrieve"
    /\ retrieved_chunks' = retrieve(sims, TOP_K)
    /\ doc_context' = [i \in 1..Len(retrieved_chunks') |-> retrieved_chunks'[i].id]
    /\ trace_events' =
           trace_events \o <<Event("retrieve", <<Len(retrieved_chunks')>>)>>
    /\ errors' = errors \o errors
    /\ retrieveCalls' = retrieveCalls + 1
    /\ steps' = Append(steps, "retrieve")
    /\ pc' = "plan"
    /\ UNCHANGED <<mainVars, corpus, question, format_hint, route, constraints, sql_query,
                   sql_result, sql_attempts, final_answer, reasoning, confidence,
                   citations, repair_count, output, executeCalls, lm_log>>

\* mutant of _plan_node: the extraction task called whatever the context
PlanNode_AlwaysExtract(out) ==
    /\ pc = "plan"
    /\ constraints' = out
    /\ lm_log' = Append(lm_log,
           LmCall("extract_constraints", <<question, doc_context>>))
    /\ trace_events' = trace_events \o <<Event("plan", <<constraints'>>)>>
    /\ errors' = errors \o errors
    /\ steps' = Append(steps, "plan")
    /\ pc' = PlanEdge(_needs_sql(route))
    /\ UNCHANGED <<mainVars, corpus, question, format_hint, route, retrieved_chunks,
                   doc_context, sql_query, sql_result, sql_attempts, final_answer,
                   reasoning, confidence, citations, repair_count, output,
                   retrieveCalls, executeCalls>>

_plan_node(out) ==
    /\ pc = "plan"
    /\ IF doc_context # <<>>
       THEN /\ constraints' = out
            /\ lm_log' = Append(lm_log,
                   LmCall("extract_constraints", <<question, doc_context>>))
       ELSE /\ constraints' = NO_CONTEXT
            /\ lm_log' = lm_log
    /\ trace_events' = trace_events \o <<Event("plan", <<constraints'>>)>>
    /\ errors' = errors \o errors
    /\ steps' = Append(steps, "plan")
    /\ pc' = PlanEdge(_needs_sql(route))
    /\ UNCHANGED <<mainVars, corpus, question, format_hint, route, retrieved_chunks,
                   doc_context, sql_query, sql_result, sql_attempts, final_answer,
                   reasoning, confidence, citations, repair_count, output,
                   retrieveCalls, executeCalls>>

_generate_sql_node(sql) ==
    /\ pc = "generate_sql"
    /\ lm_log' = Append(lm_log, LmCall("generate_sql",
           <<question, IF constraints # "" THEN <<constraints>> ELSE doc_context>>))
    /\ sql_query' = sql
    /\ sql_attempts' = sql_attempts + 1
    /\ trace_events' = trace_events \o <<Event("generate_sql", <<sql>>)>>
    /\ errors' = errors \o errors
    /\ steps' = Append(steps, "generate_sql")
    /\ pc' = "execute_sql"
    /\ UNCHANGED <<mainVars, corpus, question, format_hint, route, retrieved_chunks,
                   doc_context, constraints, sql_result, final_answer, reasoning,
                   confidence, citations, repair_count, output, retrieveCalls,
                   executeCalls>>

_execute_sql_node ==
    /\ pc = "execute_sql"
    /\ LET result == execute_query(sql_query)
       IN  /\ sql_result' = <<result>>
           /\ trace_events' = trace_events
                  \o <<Event("execute_sql", <<result.success, result.rows>>)>>
           /\ errors' = errors \o (IF ~result.success THEN <<result.error>> ELSE errors)
    /\ executeCalls' = executeCalls + 1
    /\ steps' = Append(steps, "execute_sql")
    /\ pc' = ExecuteEdge(_check_sql_success(sql_result', repair_count))
    /\ UNCHANGED <<mainVars, corpus, question, format_hint, route, retrieved_chunks,
                   doc_context, constraints, sql_query, sql_attempts, final_answer,
                   reasoning, confidence, citations, repair_count, output,
                   retrieveCalls, lm_log>>

\* mutant of _repair_sql_node: the repaired query sent to synthesis unexecuted
RepairSqlNode_ToSynthesize(refined_sql) ==
    /\ pc = "repair_sql"
    /\ LET error == IF sql_result[1].error # NoError
                    THEN sql_result[1].error ELSE "Query returned no results"
       IN  lm_log' = Append(lm_log, LmCall("refine_sql", <<question, sql_query, error>>))
    /\ sql_query' = refined_sql
    /\ sql_attempts' = sql_attempts + 1
    /\ repair_count' = repair_count + 1
    /\ trace_events' = trace_events \o <<Event("repair_sql", <<repair_count'>>)>>
    /\ errors' = errors \o errors
    /\ steps' = Append(steps, "repair_sql")
    /\ pc' = "synthesize"
    /\ UNCHANGED <<mainVars, corpus, question, format_hint, route, retrieved_chunks,
                   doc_context, constraints, sql_result, final_answer, reasoning,
                   confidence, citations, output, retrieveCalls, executeCalls>>

\* mutant of _repair_sql_node: the attempt of the repaired query not counted
RepairSqlNode_NoAttempt(refined_sql) ==
    /\ pc = "repair_sql"
    /\ LET error == IF sql_result[1].error # NoError
                    THEN sql_result[1].error ELSE "Query returned no results"
       IN  lm_log' = Append(lm_log, LmCall("refine_sql", <<question, sql_query, error>>))
    /\ sql_query' = refined_sql
    /\ repair_count' = repair_count + 1
    /\ trace_events' = trace_events \o <<Event("repair_sql", <<repair_count'>>)>>
    /\ errors' = errors \o errors
    /\ steps' = Append(steps, "repair_sql")
    /\ pc' = "execute_sql"
    /\ UNCHANGED <<mainVars, corpus, question, format_hint, route, retrieved_chunks,
                   doc_context, constraints, sql_result, sql_attempts, final_answer,
                   reasoning, confidence, citations, output, retrieveCalls,
                   executeCalls>>

\* mutant of _repair_sql_node: the repair counter kept on the agent, so
\* that a repair counts for every call in progress
RepairSqlNode_SharedCount(refined_sql) ==
    /\ pc = "repair_sql"
    /\ LET error == IF sql_result[1].error # NoError
                    THEN sql_result[1].error ELSE "Query returned no results"
       IN  lm_log' = Append(lm_log, LmCall("refine_sql", <<question, sql_query, error>>))
    /\ sql_query' = refined_sql
    /\ sql_attempts' = sql_attempts + 1
    /\ repair_count' = repair_count + 1
    /\ parked' = IF parked = <<>> THEN parked
                 ELSE <<[parked[1] EXCEPT !.repair_count = @ + 1]>>
    /\ trace_events' = trace_events \o <<Event("repair_sql", <<repair_count'>>)>>
    /\ errors' = errors \o errors
    /\ steps' = Append(steps, "repair_sql")
    /\ pc' = "execute_sql"
    /\ UNCHANGED <<lm_out, questions, idx, results, exc, written, call_count, thread,
                   store, saved, calls, files, backend>>
    /\ UNCHANGED <<corpus, question, format_hint, route, retrieved_chunks,
                   doc_context, constraints, sql_result, final_answer, reasoning,
                   confidence, citations, output, retrieveCalls, executeCalls>>

_repair_sql_node(refined_sql) ==
    /\ pc = "repair_sql"
    /\ LET error == IF sql_result[1].error # NoError
                    THEN sql_result[1].error ELSE "Query returned no results"
       IN  lm_log' = Append(lm_log, LmCall("refine_sql", <<question, sql_query, error>>))
    /\ sql_query' = refined_sql
    /\ sql_attempts' = sql_attempts + 1
    /\ repair_count' = repair_count + 1
    /\ trace_events' = trace_events \o <<Event("repair_sql", <<repair_count'>>)>>
    /\ errors' = errors \o errors
    /\ steps' = Append(steps, "repair_sql")
    /\ pc' = "execute_sql"
    /\ UNCHANGED <<mainVars, corpus, question, format_hint, route, retrieved_chunks,
                   doc_context, constraints, sql_result, final_answer, reasoning,
                   confidence, citations, output, retrieveCalls, executeCalls>>

\* chunk.score > 0.01
Significant(chunk) == chunk.score > CITE_THRESHOLD

AtThreshold(chunk) == chunk.score >= CITE_THRESHOLD

\* mutant of DocCitations: a chunk at the threshold is cited too
DocCitations_AtThreshold(chunks) ==
    LET sel == SelectSeq(chunks, AtThreshold)
    IN  [i \in 1..Len(sel) |-> sel[i].id]

\* the ids of the chunks with chunk.score > 0.01, in retrieval order
DocCitations(chunks) ==
    LET sel == SelectSeq(chunks, Significant)
    IN  [i \in 1..Len(sel) |-> sel[i].id]

\* citations.extend(sql_result.tables_used or []) for a successful result
TableCitations(res) ==
    IF res # <<>> /\ res[1].success THEN res[1].tables_used ELSE <<>>

\* list(set(citations)): each element once.  The order of the list is the
\* iteration order of a set of strings, a fixed function of the elements
\* within one process; the first occurrences in order stand for it.
RECURSIVE DedupFrom(_, _, _)
DedupFrom(s, i, acc) ==
    IF i > Len(s) THEN acc
    ELSE DedupFrom(s, i + 1, IF s[i] \in Range(acc) THEN acc ELSE Append(acc, s[i]))

Dedup(s) == DedupFrom(s, 1, <<>>)

\* mutant of SqlResultStr: every row of the result put in the text
SqlResultStr_AllRows(res) ==
    IF res # <<>> /\ res[1].success /\ res[1].rows > 0
    THEN <<res[1].columns, res[1].rows>>
    ELSE <<>>

\* the sql_result text given to the synthesis task: columns and at most
\* the first 10 rows of a successful non-empty result, else ""
SqlResultStr(res) ==
    IF res # <<>> /\ res[1].success /\ res[1].rows > 0
    THEN <<res[1].columns, Min(res[1].rows, ROWS_SHOWN)>>
    ELSE <<>>

_synthesize_node(answer_str, reason) ==
    /\ pc = "synthesize"
    /\ lm_log' = Append(lm_log, LmCall("synthesize",
           <<question, format_hint, doc_context, SqlResultStr(sql_result)>>))
    /\ final_answer' = _parse_answer(answer_str, format_hint)
    /\ reasoning' = reason
    \* the scorer is given the state, whose citations are still those it
    \* had when the node started
    /\ confidence' =
           _calculate_confidence(retrieved_chunks, sql_result, citations, repair_count)
    /\ citations' = Dedup(DocCitations(retrieved_chunks) \o TableCitations(sql_result))
    /\ trace_events' = trace_events \o <<Event("synthesize", <<confidence'>>)>>
    /\ errors' = errors \o errors
    /\ steps' = Append(steps, "synthesize")
    /\ pc' = SynthesizeEdge(_check_synthesis)
    /\ UNCHANGED <<mainVars, corpus, question, format_hint, route, retrieved_chunks,
                   doc_context, constraints, sql_query, sql_result, sql_attempts,
                   repair_count, output, retrieveCalls, executeCalls>>

_validate_node ==
    /\ pc = "validate"
    /\ trace_events' = trace_events \o <<Event("validate", <<final_answer.t>>)>>
    /\ errors' = errors \o errors
    /\ steps' = Append(steps, "validate")
    /\ pc' = "END"
    /\ UNCHANGED <<mainVars, corpus, question, format_hint, route, retrieved_chunks,
                   doc_context, constraints, sql_query, sql_result, sql_attempts,
                   final_answer, reasoning, confidence, citations, repair_count,
                   output, retrieveCalls, executeCalls, lm_log>>

\* the default of the parameter question_id
DefaultId == "test"

\* the question_id of the call
ThreadId == thread

\* an explanation text: a literal prefix, the text that follows it, and the
\* length of the whole
Explanation(prefix, text, len) == [prefix |-> prefix, text |-> text, len |-> len]

\* answer_question after graph.invoke: the result record
FormatOutput ==
    /\ pc = "END"
    /\ output' = <<[id |-> ThreadId,
                    final_answer |-> final_answer,
                    sql |-> sql_query,
                    confidence |-> confidence,
                    explanation |-> Explanation("", "reasoning",
                                               Min(reasoning, EXPLANATION_LIMIT)),
                    citations |-> citations]>>
    /\ pc' = "returned"
    /\ UNCHANGED <<mainVars, corpus, question, format_hint, route, retrieved_chunks,
                   doc_context, constraints, sql_query, sql_result, sql_attempts,
                   final_answer, reasoning, confidence, citations, repair_count,
                   errors, trace_events, steps, retrieveCalls, executeCalls, lm_log>>

Next ==
    \/ \E q \in Questions, hint \in FormatHints : answer_question(q, hint, DefaultId)
    \/ \E out \in RouteOutputs : _route_node(out)
    \/ \E sims \in [1..corpus -> ScoreSet] : _retrieve_node(sims)
    \/ \E out \in ConstraintOutputs : _plan_node(out)
    \/ \E sql \in Queries : _generate_sql_node(sql)
    \/ _execute_sql_node
    \/ \E sql \in Queries : _repair_sql_node(sql)
    \/ \E a \in AnswerTexts, r \in ReasoningLengths : _synthesize_node(a, r)
    \/ _validate_node
    \/ FormatOutput

Spec == Init /\ [][Next]_vars

\* every node runs to completion and the graph then runs the next one
FairSpec == Spec /\ WF_vars(Next)

\* ------------------------------------------------------------------------
\* Batch processing (main): the loop over the loaded questions, with runs
\* that may raise
\* ------------------------------------------------------------------------
MaxBatch == 2

\* exceptions a reasoning call can raise: the message and its length
Exceptions ==
    { [msg |-> "Connection refused", len |-> 18],
      [msg |-> "litellm.APIConnectionError: long message", len |-> 260] }

\* q_data.get("format_hint", "str")
HintOf(q_data) == IF q_data.format_hint = <<>> THEN "str" ELSE q_data.format_hint[1]

\* the lines of a batch file; the n-th line has the id qn
BatchLines ==
    { [question |-> QUESTION_POLICY, format_hint |-> <<"int">>],
      [question |-> QUESTION_TOP, format_hint |-> <<>>] }

Batches ==
    UNION {{[i \in 1..n |-> [id |-> "q" \o ToString(i),
                             question |-> ls[i].question,
                             format_hint |-> ls[i].format_hint]] :
                ls \in [1..n -> BatchLines]} : n \in 1..MaxBatch}

\* what the constructor can find on disk: the documents directory missing,
\* without any chunk, or with chunks; the database file present or not
FileStates == [docs : {"missing", "empty", "ok"}, db : BOOLEAN]

\* the exception HybridAgent() raises, if any: SimpleRetriever is built
\* first, NorthwindDB second
InitError(f) ==
    IF f.docs = "missing" THEN <<"FileNotFoundError: Documents path not found">>
    ELSE IF f.docs = "empty" THEN <<"ValueError: No document chunks found!">>
    ELSE IF ~f.db THEN <<"FileNotFoundError: Database not found">>
    ELSE <<>>

\* after the questions are loaded, before the agent is constructed
InitBatch ==
    /\ corpus = 0
    /\ pc = "start"
    /\ question = <<>>
    /\ format_hint = ""
    /\ InitialState
    /\ output = <<>>
    /\ steps = <<>>
    /\ retrieveCalls = 0
    /\ executeCalls = 0
    /\ lm_log = <<>>
    /\ lm_out = <<>>
    /\ questions \in Batches
    /\ idx = 1
    /\ results = <<>>
    /\ exc = <<>>
    /\ written = <<>>
    /\ call_count = 0
    /\ store = <<>>
    /\ thread = ""
    /\ saved = NoCheckpoints
    /\ calls = 0
    /\ files \in FileStates
    /\ backend = "none"
    /\ parked = <<>>

\* mutant of main_init: the failed construction is reported and main goes on
main_init_Continue(ollama) ==
    /\ pc = "start"
    /\ pc' = "idle"
    /\ corpus' = IF files.docs = "ok" THEN 1 ELSE 0
    /\ store' = StoredChunks(corpus')
    /\ backend' = IF ollama THEN "ollama" ELSE "fallback"
    /\ UNCHANGED <<lm_out, questions, idx, results, exc, written, call_count, thread,
                   saved, calls, files, parked>>
    /\ UNCHANGED <<question, format_hint, route, retrieved_chunks,
                   doc_context, constraints, sql_query, sql_result, sql_attempts,
                   final_answer, reasoning, confidence, citations, repair_count,
                   errors, trace_events, output, steps, retrieveCalls,
                   executeCalls, lm_log>>

\* agent = HybridAgent() in the try block of main: an exception of the
\* constructor is printed and main returns; otherwise the corpus is loaded
\* and dspy is configured with the Ollama client if it can be constructed
\* (ollama), with the rule-based responder if not
main_init(ollama) ==
    /\ pc = "start"
    /\ IF InitError(files) # <<>>
       THEN /\ pc' = "exit"
            /\ UNCHANGED <<corpus, store, backend>>
       ELSE /\ pc' = "idle"
            /\ corpus' = 1
            /\ store' = StoredChunks(corpus')
            /\ backend' = IF ollama THEN "ollama" ELSE "fallback"
    /\ UNCHANGED <<lm_out, questions, idx, results, exc, written, call_count, thread,
                   saved, calls, files, parked>>
    /\ UNCHANGED <<question, format_hint, route, retrieved_chunks,
                   doc_context, constraints, sql_query, sql_result, sql_attempts,
                   final_answer, reasoning, confidence, citations, repair_count,
                   errors, trace_events, output, steps, retrieveCalls,
                   executeCalls, lm_log>>

\* the loop body up to the call of agent.answer_question
main_call ==
    /\ questions # <<>>
    /\ idx <= Len(questions)
    /\ answer_question(questions[idx].question, HintOf(questions[idx]),
                       questions[idx].id)

\* a reasoning call of the running node raises because the Ollama server
\* cannot be reached; the exception leaves graph.invoke and answer_question
node_raises(e) ==
    /\ backend = "ollama"
    /\ pc \in {"route", "generate_sql", "repair_sql", "synthesize"}
          \/ (pc = "plan" /\ doc_context # <<>>)
    /\ exc' = <<e>>
    /\ pc' = "raised"
    /\ UNCHANGED <<lm_out, questions, idx, results, written, call_count, thread, agentVars>>
    /\ UNCHANGED <<corpus, question, format_hint, route, retrieved_chunks,
                   doc_context, constraints, sql_query, sql_result, sql_attempts,
                   final_answer, reasoning, confidence, citations, repair_count,
                   errors, trace_events, output, steps, retrieveCalls,
                   executeCalls, lm_log>>

\* results.append(result)
main_append ==
    /\ pc = "returned"
    /\ questions # <<>>
    /\ results' = Append(results, output[1])
    /\ idx' = idx + 1
    /\ pc' = "idle"
    /\ UNCHANGED <<lm_out, questions, exc, written, call_count, thread, agentVars>>
    /\ UNCHANGED <<corpus, question, format_hint, route, retrieved_chunks,
                   doc_context, constraints, sql_query, sql_result, sql_attempts,
                   final_answer, reasoning, confidence, citations, repair_count,
                   errors, trace_events, output, steps, retrieveCalls,
                   executeCalls, lm_log>>

\* mutant of ErrorRecord: fields taken from the state of the failed run
ErrorRecord_Partial(id, e) ==
    [id |-> id, final_answer |-> NoneVal, sql |-> sql_query, confidence |-> confidence,
     explanation |-> Explanation("Error: ", e.msg, 7 + e.len),
     citations |-> citations]

\* the error result of the except branch of main
ErrorRecord(id, e) ==
    [id |-> id, final_answer |-> NoneVal, sql |-> "", confidence |-> 0,
     explanation |-> Explanation("Error: ", e.msg, 7 + e.len),
     citations |-> <<>>]

\* mutant of main_except: the exception ends the batch
main_except_Abort ==
    /\ pc = "raised"
    /\ written' = results
    /\ exc' = <<>>
    /\ pc' = "done"
    /\ UNCHANGED <<lm_out, questions, idx, results, call_count, thread, agentVars>>
    /\ UNCHANGED <<corpus, question, format_hint, route, retrieved_chunks,
                   doc_context, constraints, sql_query, sql_result, sql_attempts,
                   final_answer, reasoning, confidence, citations, repair_count,
                   errors, trace_events, output, steps, retrieveCalls,
                   executeCalls, lm_log>>

\* the except branch of main
main_except ==
    /\ pc = "raised"
    /\ results' = Append(results, ErrorRecord(questions[idx].id, exc[1]))
    /\ idx' = idx + 1
    /\ exc' = <<>>
    /\ pc' = "idle"
    /\ UNCHANGED <<lm_out, questions, written, call_count, thread, agentVars>>
    /\ UNCHANGED <<corpus, question, format_hint, route, retrieved_chunks,
                   doc_context, constraints, sql_query, sql_result, sql_attempts,
                   final_answer, reasoning, confidence, citations, repair_count,
                   errors, trace_events, output, steps, retrieveCalls,
                   executeCalls, lm_log>>

\* the loop has ended: one line per result is written
main_write ==
    /\ pc = "idle"
    /\ questions # <<>>
    /\ idx > Len(questions)
    /\ written' = results
    /\ pc' = "done"
    /\ UNCHANGED <<lm_out, questions, idx, results, exc, call_count, thread, agentVars>>
    /\ UNCHANGED <<corpus, question, format_hint, route, retrieved_chunks,
                   doc_context, constraints, sql_query, sql_result, sql_attempts,
                   final_answer, reasoning, confidence, citations, repair_count,
                   errors, trace_events, output, steps, retrieveCalls,
                   executeCalls, lm_log>>

\* adapter responses drawn in the batch specification
BatchRouteOutputs == {<<"rag">>, <<"sql">>}
BatchQueries == {Q_BAD, Q_JOIN}
BatchAnswerTexts == {<<"x", SPACE, "1", "4">>}
BatchReasoningLengths == {40, 250}

NextBatch ==
    \/ \E ollama \in BOOLEAN : main_init(ollama)
    \/ main_call
    \/ \E out \in BatchRouteOutputs : _route_node(out)
    \/ \E sims \in [1..corpus -> {60}] : _retrieve_node(sims)
    \/ \E out \in {""} : _plan_node(out)
    \/ \E sql \in BatchQueries : _generate_sql_node(sql)
    \/ _execute_sql_node
    \/ \E sql \in BatchQueries : _repair_sql_node(sql)
    \/ \E a \in BatchAnswerTexts, r \in BatchReasoningLengths : _synthesize_node(a, r)
    \/ _validate_node
    \/ FormatOutput
    \/ \E e \in Exceptions : node_raises(e)
    \/ main_append
    \/ main_except
    \/ main_write

SpecBatch == InitBatch /\ [][NextBatch]_vars

\* ------------------------------------------------------------------------
\* Several calls of answer_question on one agent, one after the other, with
\* question ids that may repeat
\* ------------------------------------------------------------------------
MaxCalls == 2

\* the ids the caller passes: the default and one of its own
CallIds == {DefaultId, "q1"}

\* the caller has the result record and the agent is free for its next call
answer_question_returns ==
    /\ pc = "returned"
    /\ calls < MaxCalls
    /\ pc' = "idle"
    /\ UNCHANGED <<mainVars, corpus, question, format_hint, route, retrieved_chunks,
                   doc_context, constraints, sql_query, sql_result, sql_attempts,
                   final_answer, reasoning, confidence, citations, repair_count,
                   errors, trace_events, output, steps, retrieveCalls,
                   executeCalls, lm_log>>

NextCalls ==
    \/ \E id \in CallIds : answer_question(QUESTION_TOP, "int", id)
    \/ \E out \in BatchRouteOutputs : _route_node(out)
    \/ \E sims \in [1..corpus -> {60}] : _retrieve_node(sims)
    \/ \E out \in {""} : _plan_node(out)
    \/ \E sql \in BatchQueries : _generate_sql_node(sql)
    \/ _execute_sql_node
    \/ \E sql \in {Q_JOIN} : _repair_sql_node(sql)
    \/ \E a \in BatchAnswerTexts, r \in {40} : _synthesize_node(a, r)
    \/ _validate_node
    \/ FormatOutput
    \/ answer_question_returns

SpecCalls == Init /\ [][NextCalls]_vars

\* ------------------------------------------------------------------------
\* Two calls of answer_question in progress on one agent at the same time.
\* The variables of the graph state are those of the call whose node runs
\* next; parked holds the state of the other call.  The reasoning service
\* answers by a fixed script for each question, so that a call's result
\* can be compared with the result of the same call under another schedule.
\* ------------------------------------------------------------------------
\* the state of one call: its graph state, its position and its result
RunState ==
    [pc |-> pc,
     question |-> question,
     format_hint |-> format_hint,
     route |-> route,
     retrieved_chunks |-> retrieved_chunks,
     doc_context |-> doc_context,
     constraints |-> constraints,
     sql_query |-> sql_query,
     sql_result |-> sql_result,
     sql_attempts |-> sql_attempts,
     final_answer |-> final_answer,
     reasoning |-> reasoning,
     confidence |-> confidence,
     citations |-> citations,
     repair_count |-> repair_count,
     errors |-> errors,
     trace_events |-> trace_events,
     output |-> output,
     steps |-> steps,
     retrieveCalls |-> retrieveCalls,
     executeCalls |-> executeCalls,
     lm_log |-> lm_log,
     thread |-> thread]

\* a call that has not been made yet
FreshRun ==
    [pc |-> "idle", question |-> <<>>, format_hint |-> "", route |-> "",
     retrieved_chunks |-> <<>>, doc_context |-> <<>>, constraints |-> "",
     sql_query |-> "", sql_result |-> <<>>, sql_attempts |-> 0,
     final_answer |-> NoneVal, reasoning |-> 0, confidence |-> 0,
     citations |-> <<>>, repair_count |-> 0, errors |-> <<>>,
     trace_events |-> <<>>, output |-> <<>>, steps |-> <<>>,
     retrieveCalls |-> 0, executeCalls |-> 0, lm_log |-> <<>>, thread |-> ""]

PairQuestions == {QUESTION_POLICY, QUESTION_TOP}

PairIds == {"q1", "q2"}

\* what the reasoning service answers for a question
Scripts ==
    [route : {<<"rag">>, <<"sql">>, <<"hybrid">>}, sql_query : {Q_BAD, Q_JOIN},
     refined_sql : {Q_BAD, Q_JOIN}]

InitPair ==
    /\ corpus = 1
    /\ pc = "idle"
    /\ question = <<>>
    /\ format_hint = ""
    /\ InitialState
    /\ output = <<>>
    /\ steps = <<>>
    /\ retrieveCalls = 0
    /\ executeCalls = 0
    /\ lm_log = <<>>
    /\ lm_out \in [PairQuestions -> Scripts]
    /\ questions = <<>>
    /\ idx = 1
    /\ results = <<>>
    /\ exc = <<>>
    /\ written = <<>>
    /\ call_count = 0
    /\ store = StoredChunks(corpus)
    /\ thread = ""
    /\ saved = NoCheckpoints
    /\ calls = 0
    /\ files = FilesOk
    /\ backend = "ollama"
    /\ parked = <<FreshRun>>

\* the scheduler lets the other call run: the two calls change places
switch ==
    /\ parked # <<>>
    /\ parked' = <<RunState>>
    /\ pc' = parked[1].pc
    /\ question' = parked[1].question
    /\ format_hint' = parked[1].format_hint
    /\ route' = parked[1].route
    /\ retrieved_chunks' = parked[1].retrieved_chunks
    /\ doc_context' = parked[1].doc_context
    /\ constraints' = parked[1].constraints
    /\ sql_query' = parked[1].sql_query
    /\ sql_result' = parked[1].sql_result
    /\ sql_attempts' = parked[1].sql_attempts
    /\ final_answer' = parked[1].final_answer
    /\ reasoning' = parked[1].reasoning
    /\ confidence' = parked[1].confidence
    /\ citations' = parked[1].citations
    /\ repair_count' = parked[1].repair_count
    /\ errors' = parked[1].errors
    /\ trace_events' = parked[1].trace_events
    /\ output' = parked[1].output
    /\ steps' = parked[1].steps
    /\ retrieveCalls' = parked[1].retrieveCalls
    /\ executeCalls' = parked[1].executeCalls
    /\ lm_log' = parked[1].lm_log
    /\ thread' = parked[1].thread
    /\ UNCHANGED <<lm_out, questions, idx, results, exc, written, call_count,
                   store, saved, calls, files, backend, corpus>>

NextPair ==
    \/ \E q \in PairQuestions, id \in PairIds \ {parked[1].thread} :
           thread = "" /\ answer_question(q, "int", id)
    \/ _route_node(lm_out[question].route)
    \/ _retrieve_node([i \in 1..corpus |-> 60])
    \/ _plan_node("")
    \/ _generate_sql_node(lm_out[question].sql_query)
    \/ _execute_sql_node
    \/ _repair_sql_node(lm_out[question].refined_sql)
    \/ _synthesize_node(<<"x", SPACE, "1", "4">>, 40)
    \/ _validate_node
    \/ FormatOutput
    \/ switch

SpecPair == InitPair /\ [][NextPair]_vars

\* ------------------------------------------------------------------------
\* The scorer on arbitrary state fields: a second specification that draws
\* the fields _calculate_confidence reads and applies it once
\* ------------------------------------------------------------------------
MaxCitations == 4

\* similarities in [0, 1], in hundredths
ConfScores == {0, 1, 50, 100}

ConfChunks ==
    UNION {[1..n -> [id : {ChunkId(1)}, score : ConfScores]] : n \in 0..TOP_K}

ConfResults == {<<>>} \cup {<<execute_query(q)>> : q \in Queries}

ConfCitations ==
    UNION {[1..n -> {ChunkId(1), "Orders"}] : n \in 0..MaxCitations}

InitConf ==
    /\ corpus = 1
    /\ pc = "score"
    /\ question = <<>>
    /\ format_hint = ""
    /\ route = ""
    /\ retrieved_chunks \in ConfChunks
    /\ doc_context = <<>>
    /\ constraints = ""
    /\ sql_query = ""
    /\ sql_result \in ConfResults
    /\ sql_attempts = 0
    /\ final_answer = NoneVal
    /\ reasoning = 0
    /\ confidence = 0
    /\ citations \in ConfCitations
    /\ repair_count \in 0..MAX_REPAIRS
    /\ errors = <<>>
    /\ trace_events = <<>>
    /\ output = <<>>
    /\ steps = <<>>
    /\ retrieveCalls = 0
    /\ executeCalls = 0
    /\ lm_log = <<>>
    /\ NoBatch

ApplyConfidence ==
    /\ pc = "score"
    /\ confidence' =
           _calculate_confidence(retrieved_chunks, sql_result, citations, repair_count)
    /\ pc' = "scored"
    /\ UNCHANGED <<mainVars, corpus, question, format_hint, route, retrieved_chunks,
                   doc_context, constraints, sql_query, sql_result, sql_attempts,
                   final_answer, reasoning, citations, repair_count, errors,
                   trace_events, output, steps, retrieveCalls, executeCalls, lm_log>>

NextConf == ApplyConfidence

SpecConf == InitConf /\ [][NextConf]_vars

\* ------------------------------------------------------------------------
\* The answer parser on arbitrary answer texts: a specification that draws
\* an answer text and a format_hint and applies _parse_answer once
\* ------------------------------------------------------------------------
MaxLen == 3

Lexemes == Digits \cup {".", "{", "}", "[", "]", "k:", "null", SPACE, "x"}

\* texts of at most MaxLen lexemes
CoreTexts == UNION {[1..n -> Lexemes] : n \in 0..MaxLen}

\* a text wrapped in a fenced code block
Fenced(s) == <<FENCE>> \o s \o <<FENCE>>

ParseTexts == CoreTexts \cup {Fenced(s) : s \in CoreTexts}

InitParse ==
    /\ corpus = 1
    /\ pc = "parse"
    /\ question = <<>>
    /\ format_hint \in FormatHints
    /\ InitialState
    /\ output = <<>>
    /\ steps = <<>>
    /\ retrieveCalls = 0
    /\ executeCalls = 0
    /\ lm_log = <<>>
    /\ lm_out \in ParseTexts
    /\ NoMain

ApplyParse ==
    /\ pc = "parse"
    /\ final_answer' = _parse_answer(lm_out, format_hint)
    /\ pc' = "parsed"
    /\ UNCHANGED <<mainVars, corpus, question, format_hint, route, retrieved_chunks,
                   doc_context, constraints, sql_query, sql_result, sql_attempts,
                   reasoning, confidence, citations, repair_count, errors,
                   trace_events, output, steps, retrieveCalls, executeCalls, lm_log>>

NextParse == ApplyParse

SpecParse == InitParse /\ [][NextParse]_vars

\* ------------------------------------------------------------------------
\* The route node on arbitrary questions and classifier outputs: a
\* specification that draws both and runs the node once
\* ------------------------------------------------------------------------
MaxWords == 3

Vocabulary ==
    {"policy", "Return", "days", "revenue", "Top", "summer", "during",
     "calendar", "price"}

RouterQuestions == UNION {[1..n -> Vocabulary] : n \in 0..MaxWords}

RouterOutputs == RouteOutputs \cup {<<"Hybrid">>, <<"rag", SPACE, "sql">>}

InitRoute ==
    /\ corpus = 1
    /\ pc = "route"
    /\ question \in RouterQuestions
    /\ format_hint = "str"
    /\ InitialState
    /\ output = <<>>
    /\ steps = <<>>
    /\ retrieveCalls = 0
    /\ executeCalls = 0
    /\ lm_log = <<>>
    /\ lm_out \in RouterOutputs
    /\ NoMain

\* the route node when the classifier returns the drawn text
NextRoute == _route_node(lm_out)

SpecRoute == InitRoute /\ [][NextRoute]_vars

\* ------------------------------------------------------------------------
\* The rule-based responder on arbitrary questions: a specification that
\* draws a question and asks the responder one task about it
\* ------------------------------------------------------------------------
FallbackVocabulary ==
    {"policy", "Return", "revenue", "Top", "during", "campaign", "beverages",
     "routes", "price"}

FallbackQuestions == UNION {[1..n -> FallbackVocabulary] : n \in 0..MaxWords}

InitFallback ==
    /\ corpus = 1
    /\ pc = "prompt"
    /\ question \in FallbackQuestions
    /\ format_hint = "str"
    /\ InitialState
    /\ output = <<>>
    /\ steps = <<>>
    /\ retrieveCalls = 0
    /\ executeCalls = 0
    /\ lm_log = <<>>
    /\ lm_out = <<>>
    /\ NoMain

\* one call of the responder with the prompt of the task
ApplyFallback(task) ==
    /\ pc = "prompt"
    /\ call_count' = call_count + 1
    /\ lm_log' = Append(lm_log, LmCall(task, <<question>>))
    /\ lm_out' = FallbackLM(Prompt(task, question))
    /\ pc' = "answered"
    /\ UNCHANGED <<questions, idx, results, exc, written, thread, agentVars>>
    /\ UNCHANGED <<corpus, question, format_hint, route, retrieved_chunks,
                   doc_context, constraints, sql_query, sql_result, sql_attempts,
                   final_answer, reasoning, confidence, citations, repair_count,
                   errors, trace_events, output, steps, retrieveCalls, executeCalls>>

NextFallback == \E task \in Tasks : ApplyFallback(task)

SpecFallback == InitFallback /\ [][NextFallback]_vars

\* ------------------------------------------------------------------------
\* The retriever on arbitrary similarities: a specification that draws the
\* similarities of the query to the stored chunks and top_k, and calls
\* retrieve twice with them
\* ------------------------------------------------------------------------
RetrieveInputs ==
    UNION {[sims : [1..n -> {0, 1, 50, 100}], top_k : 0..TOP_K] : n \in 1..MaxCorpus}

InitRetrieve ==
    /\ lm_out \in RetrieveInputs
    /\ corpus = Len(lm_out.sims)
    /\ pc = "retrieve"
    /\ question = QUESTION_POLICY
    /\ format_hint = "str"
    /\ InitialState
    /\ output = <<>>
    /\ steps = <<>>
    /\ retrieveCalls = 0
    /\ executeCalls = 0
    /\ lm_log = <<>>
    /\ NoMain

\* self.retriever.retrieve(query, top_k): the stored chunks are read, the
\* result is built from new DocumentChunk objects
ApplyRetrieve ==
    /\ pc = "retrieve"
    /\ retrieveCalls < 2
    /\ retrieved_chunks' = retrieve(lm_out.sims, lm_out.top_k)
    /\ retrieveCalls' = retrieveCalls + 1
    /\ UNCHANGED <<mainVars, corpus, pc, question, format_hint, route, doc_context,
                   constraints, sql_query, sql_result, sql_attempts, final_answer,
                   reasoning, confidence, citations, repair_count, errors,
                   trace_events, output, steps, executeCalls, lm_log>>

NextRetrieve == ApplyRetrieve

SpecRetrieve == InitRetrieve /\ [][NextRetrieve]_vars

\* ------------------------------------------------------------------------
\* Properties
\* ------------------------------------------------------------------------
Finished == pc \in {"END", "returned"}

\* the execute_sql events of the trace
ExecuteEvents == {i \in 1..Len(trace_events) : trace_events[i].node = "execute_sql"}

\* every query attempt so far failed or returned no row
AllAttemptsBad ==
    \A i \in ExecuteEvents :
        ~(trace_events[i].meta[1] /\ trace_events[i].meta[2] > 0)

\* every query attempt so far failed
AllAttemptsFailed == \A i \in ExecuteEvents : ~trace_events[i].meta[1]

Count(s, x) == Cardinality({i \in 1..Len(s) : s[i] = x})

\* C1: in every state of a run repair_count is between 0 and 2.
C1_RepairCountBounded == repair_count \in 0..2

C1_Witness == pc = "returned" /\ repair_count = 2

\* C2: every run that has started reaches the end of the graph (validate
\* has run), and execute_sql is entered at most 3 times in a run.
C2_Terminates ==
    /\ (pc = "route") ~> (pc = "END" /\ steps[Len(steps)] = "validate")
    /\ [](Count(steps, "execute_sql") <= 3 /\ executeCalls <= 3)

C2_Witness == pc = "END" /\ Count(steps, "execute_sql") = 3

\* C3: on route sql or hybrid, when every attempt fails or returns no row,
\* the run makes exactly 3 execute_sql steps (1 after generate_sql, 2 after
\* repair_sql), then synthesize and validate, and ends with repair_count 2.
C3_ExhaustedRun ==
    (Finished /\ route \in {"sql", "hybrid"} /\ AllAttemptsBad) =>
        /\ executeCalls = 3
        /\ repair_count = 2
        /\ SubSeq(steps, Len(steps) - 7, Len(steps)) =
               <<"generate_sql", "execute_sql", "repair_sql", "execute_sql",
                 "repair_sql", "execute_sql", "synthesize", "validate">>

C3_Witness ==
    /\ pc = "returned" /\ route = "hybrid" /\ AllAttemptsBad
    /\ executeCalls = 3
    /\ \E i \in ExecuteEvents : trace_events[i].meta[1]
    /\ \E i \in ExecuteEvents : ~trace_events[i].meta[1]

\* C4: when every query attempt of a run fails, the result record has a
\* non-null final_answer.
C4_NonNullAnswer ==
    (pc = "returned" /\ executeCalls > 0 /\ AllAttemptsFailed) =>
        output[1].final_answer # NoneVal

\* C5: on route sql the retrieve node never runs and the Retrieval Adapter
\* is not called (no chunk, no document context); on route rag or hybrid it
\* has been called exactly once when the run completes.
C5_RetrievalFollowsRoute ==
    /\ route = "sql" =>
           /\ retrieveCalls = 0
           /\ Count(steps, "retrieve") = 0
           /\ retrieved_chunks = <<>>
           /\ doc_context = <<>>
    /\ (Finished /\ route \in {"rag", "hybrid"}) => retrieveCalls = 1

C5_Witness == pc = "returned" /\ route = "sql" /\ citations # <<>>

\* C6: the step after plan is generate_sql exactly when the route is sql or
\* hybrid; on route rag no SQL node runs, the Data Adapter is not called and
\* the result's sql is empty.
C6_PlanDecision ==
    /\ [][pc = "plan" => (pc' = "generate_sql" <=> route \in {"sql", "hybrid"})]_vars
    /\ [](route = "rag" =>
            /\ \A n \in {"generate_sql", "execute_sql", "repair_sql"} : Count(steps, n) = 0
            /\ executeCalls = 0
            /\ (pc = "returned" => output[1].sql = ""))

C6_Witness == pc = "returned" /\ route = "rag" /\ output[1].sql = ""

\* C7: after execute_sql the run goes to synthesize when the outcome has
\* rows, to repair_sql when it failed or is empty and repair_count < 2, and
\* to synthesize when it failed or is empty and repair_count = 2.
C7_ExecuteDecision ==
    [][pc = "execute_sql" =>
          LET r == sql_result'[1]
          IN  pc' = IF r.success /\ r.rows > 0 THEN "synthesize"
                    ELSE IF repair_count < 2 THEN "repair_sql"
                    ELSE "synthesize"]_vars

C7_Witness ==
    /\ pc = "repair_sql" /\ repair_count = 1
    /\ sql_result[1].success /\ sql_result[1].rows = 0

\* C8: the value _calculate_confidence returns lies in [0, 1] (0..100
\* hundredths) for every number of chunks, query outcome, citation list and
\* repair count.
C8_ConfidenceInUnitInterval == pc = "scored" => confidence \in 0..100

C8_Witness ==
    /\ pc = "scored" /\ confidence = 100 /\ repair_count = 0
    /\ Len(retrieved_chunks) = TOP_K /\ Len(citations) = MaxCitations

\* C9: the confidence of the result record is the documented weighted sum
\* whose citation term is computed from the citations the record reports.
C9_ConfidenceUsesCitations ==
    pc = "returned" =>
        output[1].confidence =
            _calculate_confidence(retrieved_chunks, sql_result,
                                  output[1].citations, repair_count)

\* C10: the citations of a completed run are exactly the ids of the
\* retrieved chunks with score > 0.01 and the tables of the final query
\* outcome, each once.
C10_CitationsExact ==
    Finished =>
        /\ Range(citations) =
               {retrieved_chunks[i].id :
                    i \in {j \in 1..Len(retrieved_chunks) : retrieved_chunks[j].score > 1}}
               \cup (IF sql_result = <<>> THEN {} ELSE Range(sql_result[1].tables_used))
        /\ Len(citations) = Cardinality(Range(citations))

C10_Witness ==
    /\ pc = "returned" /\ Len(output[1].citations) = 3
    /\ \E i \in 1..Len(retrieved_chunks) : retrieved_chunks[i].score = 1
    /\ "Orders" \in Range(output[1].citations)

\* s[i..j] is the first maximal run of digits of s
IsFirstRun(s, i, j) ==
    /\ i <= j
    /\ \A k \in i..j : s[k] \in Digits
    /\ \A k \in 1..(i - 1) : s[k] \notin Digits
    /\ j = Len(s) \/ s[j + 1] \notin Digits

\* the number the decimal digits s[i..j] denote
RECURSIVE Decimal(_, _, _)
Decimal(s, i, j) ==
    IF i > j THEN 0 ELSE 10 * Decimal(s, i, j - 1) + DigitVal(s[j])

\* C11: with format_hint "int" the parsed answer is the integer value of the
\* first contiguous run of digits of the answer text, 0 when the text has no
\* digit; a first run "14" gives 14 and a first run "51" gives 51.
C11_IntFirstDigitRun ==
    (pc = "parsed" /\ format_hint = "int") =>
        /\ final_answer.t = "int"
        /\ (\A k \in 1..Len(lm_out) : lm_out[k] \notin Digits) => final_answer.v = <<0>>
        /\ \A i, j \in 1..Len(lm_out) :
               IsFirstRun(lm_out, i, j) =>
                   /\ final_answer.v = <<Decimal(lm_out, i, j)>>
                   /\ SubSeq(lm_out, i, j) = <<"1", "4">> => final_answer.v = <<14>>
                   /\ SubSeq(lm_out, i, j) = <<"5", "1">> => final_answer.v = <<51>>

C11_Witness ==
    /\ pc = "parsed" /\ format_hint = "int"
    /\ lm_out = <<"x", "1", "4">> /\ final_answer.v = <<14>>

\* C12: with a record or list format_hint, a well-formed record or list
\* wrapped in a fenced code block parses to the same value as the same text
\* without the fence.
C12_FenceTransparent ==
    (/\ pc = "parsed" /\ IsStructuredHint(format_hint)
     /\ Len(lm_out) >= 2 /\ lm_out[1] = FENCE /\ lm_out[Len(lm_out)] = FENCE
     /\ IsJson(Inner(lm_out))
     /\ JsonValue(Inner(lm_out)).t \in {"dict", "list"})
        => final_answer = _parse_answer(Inner(lm_out), format_hint)

\* C13: with a record or list format_hint, when neither the whole text nor
\* its first brace- or bracket-delimited substring parses as a structured
\* value (no such substring, or a malformed one), the parsed answer is the
\* empty record.
C13_EmptyRecordOnFailure ==
    (/\ pc = "parsed" /\ IsStructuredHint(format_hint)
     /\ FENCE \notin Range(lm_out)
     /\ ~IsJson(lm_out)
     /\ LET d == FirstDelimited(Strip(lm_out), 1) IN d = <<>> \/ ~IsJson(d))
        => final_answer = [t |-> "dict", v |-> <<"{", "}">>]

\* the types of the values _parse_answer can return
PythonTypes == {"int", "float", "dict", "list", "str", "NoneType"}

\* C14: _parse_answer returns a value for every answer text and every
\* format_hint, and where the parsing raises (a fenced text, or a malformed
\* delimited substring of a text that is not structured) the value is the
\* trimmed answer text.
C14_ParserNeverRaises ==
    pc = "parsed" =>
        /\ final_answer.t \in PythonTypes
        /\ (/\ IsStructuredHint(format_hint)
            /\ \/ FENCE \in Range(lm_out)
               \/ /\ ~IsJson(lm_out)
                  /\ FirstDelimited(Strip(lm_out), 1) # <<>>
                  /\ ~IsJson(FirstDelimited(Strip(lm_out), 1)))
               => final_answer = [t |-> "str", v |-> Strip(lm_out)]

C14_Witness ==
    /\ pc = "parsed" /\ format_hint = RecordHint
    /\ lm_out = <<"{", "x", "}">>
    /\ final_answer = [t |-> "str", v |-> <<"{", "x", "}">>]

\* the route node has run on the drawn question and classifier output
Routed == steps = <<"route">>

\* the classifier output, lower-cased and without blanks, is this label
OutputIs(label) == Squeeze([i \in 1..Len(lm_out) |-> Lower(lm_out[i])]) = <<label>>

\* C15: after the route node route is one of rag, sql, hybrid for every
\* classifier output, and when the trimmed lower-cased output is one of the
\* three labels route is that label; the first edge follows the route.
C15_RouteIsLabel ==
    Routed =>
        /\ route \in {"rag", "sql", "hybrid"}
        /\ \A label \in {"rag", "sql", "hybrid"} :
               (OutputIs(label) /\ SPACE \notin Range(Strip(lm_out))) => route = label
        /\ pc = IF route = "sql" THEN "plan" ELSE "retrieve"

C15_Witness ==
    Routed /\ lm_out = <<SPACE, "SQL", SPACE>> /\ route = "sql"
           /\ question = <<"policy">>

\* some word of the question, lower-cased, is one of the words ws
HasWordOf(q, ws) == \E i \in 1..Len(q) : Lower(q[i]) \in ws

\* the route chosen from the question when the output is no label
Unrecognized == Routed /\ \A label \in {"rag", "sql", "hybrid"} : ~OutputIs(label)

\* C16 as stated: with an unrecognized output, a document word (policy,
\* return, window, definition) gives rag; otherwise an aggregate word
\* (revenue, top, total, count) gives sql, or hybrid with a temporal or
\* campaign word; a question with none of these words gives hybrid.
C16_RouterPrecedence ==
    Unrecognized =>
        route =
            IF HasWordOf(question, {"policy", "return", "window", "definition"})
            THEN "rag"
            ELSE IF HasWordOf(question, {"revenue", "top", "total", "count"})
            THEN (IF HasWordOf(question, {"during", "campaign", "marketing", "calendar"})
                  THEN "hybrid" ELSE "sql")
            ELSE "hybrid"

\* the lower-cased question holds, as a word or inside a word, one of ws
HoldsOneOf(q, ws) ==
    \E i \in 1..Len(q) :
        \/ Lower(q[i]) \in ws
        \/ Lower(q[i]) = "summer" /\ "sum" \in ws
        \/ Lower(q[i]) = "returned" /\ "return" \in ws
        \/ Lower(q[i]) = "countries" /\ "count" \in ws
        \/ Lower(q[i]) = "stopped" /\ "top" \in ws

\* C16 amended: the keywords are searched as substrings of the lower-cased
\* question; policy, return, window, days or definition gives rag even
\* with aggregate words; otherwise revenue, top, total, sum or count gives
\* sql, or hybrid when during, campaign, marketing or calendar is also
\* found; otherwise hybrid.
C16_RouterPrecedenceAmended ==
    Unrecognized =>
        route =
            IF HoldsOneOf(question, {"policy", "return", "window", "days", "definition"})
            THEN "rag"
            ELSE IF HoldsOneOf(question, {"revenue", "top", "total", "sum", "count"})
            THEN (IF HoldsOneOf(question, {"during", "campaign", "marketing", "calendar"})
                  THEN "hybrid" ELSE "sql")
            ELSE "hybrid"

C16_Witness ==
    /\ Unrecognized /\ lm_out = <<"both">>
    /\ question = <<"revenue", "policy">> /\ route = "rag"

\* the responder has answered a route-classification prompt
RouteAnswered == pc = "answered" /\ lm_log[1].task = "route"

\* C17: the rule-based responder answers a route-classification prompt for
\* a question containing "policy" and "return" with route rag, whatever
\* other keywords (revenue, top, during, campaign) the question contains.
C17_FallbackPolicyReturnIsRag ==
    (/\ RouteAnswered
     /\ HasWordOf(question, {"policy"})
     /\ HasWordOf(question, {"return"}))
        => "route" \in DOMAIN lm_out /\ lm_out.route = "rag"

C17_Witness ==
    /\ RouteAnswered /\ call_count = 1
    /\ question = <<"policy", "Return", "revenue">> /\ lm_out.route = "rag"

\* a record of the except branch of main
IsErrorRecord(r) == r.final_answer = NoneVal /\ r.explanation.prefix = "Error: "

C19_ErrorRecordClean ==
    [][pc = "raised" =>
          results'[Len(results')] =
              [id |-> questions[idx].id,
               final_answer |-> [t |-> "NoneType", v |-> <<>>],
               sql |-> "",
               confidence |-> 0,
               explanation |-> [prefix |-> "Error: ", text |-> exc[1].msg,
                                len |-> 7 + exc[1].len],
               citations |-> <<>>]]_vars

C19_Witness ==
    /\ pc = "idle" /\ Len(results) = 1 /\ IsErrorRecord(results[1])
    /\ sql_query # "" /\ retrieved_chunks = <<>> /\ repair_count > 0
    /\ results[1].sql = ""

\* C20: every record written to the batch output, of a completed run or of
\* a failed run, has an explanation of at most 200 characters.
C20_ExplanationBounded ==
    \A i \in 1..Len(written) : written[i].explanation.len <= 200

\* C21: execute_query returns a QueryResult for every query; a failed one
\* has success false, an error message and empty columns, rows and
\* tables_used, and the run goes on to the repair decision.
C21_ExecuteNeverRaises ==
    /\ [](sql_result # <<>> =>
            /\ DOMAIN sql_result[1] = {"success", "columns", "rows", "error", "tables_used"}
            /\ ~sql_result[1].success =>
                   /\ sql_result[1].error # "None"
                   /\ sql_result[1].columns = <<>>
                   /\ sql_result[1].rows = 0
                   /\ sql_result[1].tables_used = <<>>)
    /\ [][pc = "execute_sql" =>
            /\ sql_result' # <<>>
            /\ pc' \in {"repair_sql", "synthesize"}
            /\ (~sql_result'[1].success /\ repair_count < 2) => pc' = "repair_sql"]_vars

C21_Witness ==
    /\ pc = "repair_sql" /\ ~sql_result[1].success
    /\ sql_result[1].error = "near SELEC: syntax error"
    /\ executeCalls = 2

\* the failed execute_sql steps of the run
FailedExecutes == {i \in ExecuteEvents : ~trace_events[i].meta[1]}

\* C29: the errors log holds one entry for each failed execute_sql step of
\* the run, each error once, and repair_sql, synthesize and validate leave
\* the log as it was.
C29_OneErrorPerFailedExecute ==
    /\ [](Len(errors) = Cardinality(FailedExecutes))
    /\ [][(pc \in {"repair_sql", "synthesize", "validate"}) => (errors' = errors)]_vars

\* C30: synthesize runs exactly once in a run, validate is the node that
\* follows it, and no node runs after validate.
C30_SynthesizeOnce ==
    /\ [](Count(steps, "synthesize") <= 1)
    /\ [](Finished =>
            /\ Count(steps, "synthesize") = 1
            /\ Len(steps) >= 2
            /\ steps[Len(steps) - 1] = "synthesize"
            /\ steps[Len(steps)] = "validate")
    /\ [][pc = "synthesize" => (pc' = "validate")]_vars
    /\ [][pc = "validate" => (pc' = "END")]_vars
    /\ [][Finished => (steps' = steps /\ trace_events' = trace_events)]_vars

C30_Witness ==
    /\ pc = "returned" /\ Count(steps, "synthesize") = 1
    /\ final_answer = EmptyRecord /\ repair_count = 2

\* C26: the rule-based responder answers every task with a record that
\* carries the primary output field of that task (route, sql_query,
\* refined_sql, answer, constraints), whatever words the question holds.
C26_FallbackKeepsShape ==
    pc = "answered" => PrimaryField(lm_log[1].task) \in DOMAIN lm_out

\* the names of the nodes recorded in the trace, in order
TraceNodes == [i \in 1..Len(trace_events) |-> trace_events[i].node]

\* the nodes of the graph
NodeNames ==
    {"route", "retrieve", "plan", "generate_sql", "execute_sql", "repair_sql",
     "synthesize", "validate"}

\* C23: the state of a run is built from its own call only: the graph
\* starts every call, one that reuses a question id included, with an empty
\* trace and an empty errors log, and ends it with the trace of that call.
C23_RunStateNotShared ==
    /\ [](pc = "route" => trace_events = <<>> /\ errors = <<>>)
    /\ [](Finished => Len(trace_events) = Len(steps))

\* C25: a node appends one event with its own name to the trace and leaves
\* the events before it as they were; when the run completes, the node
\* names of the trace are the nodes executed, route first, validate last.
C25_TraceAppendOnly ==
    /\ [][(pc \in NodeNames) =>
            /\ Len(trace_events') = Len(trace_events) + 1
            /\ SubSeq(trace_events', 1, Len(trace_events)) = trace_events
            /\ trace_events'[Len(trace_events')].node = pc]_vars
    /\ [](Finished =>
            /\ TraceNodes = steps
            /\ TraceNodes[1] = "route"
            /\ TraceNodes[Len(TraceNodes)] = "validate")

\* C27: retrieve returns min(top_k, number of stored chunks) fragments in
\* order of non-increasing score, each a stored chunk with the similarity
\* of the query as its score and none twice; a second call with the same
\* query returns the same list, and the stored chunks stay as loaded.
C27_RetrieveTopK ==
    /\ [](retrieveCalls >= 1 =>
            /\ Len(retrieved_chunks) = Min(lm_out.top_k, corpus)
            /\ \A i \in 1..Len(retrieved_chunks) : \A j \in i..Len(retrieved_chunks) :
                   retrieved_chunks[i].score >= retrieved_chunks[j].score
            /\ \A i \in 1..Len(retrieved_chunks) :
                   \E k \in 1..corpus :
                       /\ retrieved_chunks[i] = [id |-> store[k].id, score |-> lm_out.sims[k]]
                       /\ \A j \in 1..Len(retrieved_chunks) :
                              retrieved_chunks[j].id = store[k].id => j = i
            /\ store = StoredChunks(corpus))
    /\ [][retrieveCalls >= 1 => (retrieved_chunks' = retrieved_chunks)]_vars

C27_Witness ==
    /\ retrieveCalls = 2 /\ corpus = 2 /\ lm_out.top_k = 1
    /\ lm_out.sims = <<1, 50>>
    /\ retrieved_chunks = <<[id |-> ChunkId(2), score |-> 50]>>

\* C22: an unreachable reasoning backend is never fatal: no call of a run
\* raises, and every question of the batch gets a normal result record.
C22_BackendNeverFatal ==
    /\ pc # "raised"
    /\ \A i \in 1..Len(results) : ~IsErrorRecord(results[i])

\* C28: when the documents are missing or empty, or the database file is
\* missing, the construction of the agent fails and main ends at once: no
\* question is asked, no node runs, no record is collected or written.
C28_StartupFailureIsFatal ==
    /\ [](InitError(files) # <<>> =>
            /\ pc \in {"start", "exit"}
            /\ calls = 0 /\ steps = <<>> /\ corpus = 0 /\ backend = "none"
            /\ output = <<>> /\ results = <<>> /\ written = <<>>)
    /\ [][pc = "start" => (pc' = (IF InitError(files) # <<>> THEN "exit" ELSE "idle"))]_vars
    /\ [][pc = "exit" => UNCHANGED vars]_vars

C28_Witness ==
    /\ pc = "exit" /\ files = [docs |-> "ok", db |-> FALSE]
    /\ Len(questions) = 2 /\ written = <<>>

\* both calls have returned their result record
BothReturned == parked # <<>> /\ pc = "returned" /\ parked[1].pc = "returned"

\* C24: two calls with different question ids running at the same time on
\* one agent do not write each other's state: a step of one call leaves
\* the other call's counters, query, citations and trace as they were, and
\* two calls given the same question end with the same result record (the
\* id apart), the same counters and the same trace under every schedule.
C24_RunsIndependent ==
    /\ [][parked' = parked \/ (parked' = <<RunState>> /\ <<RunState>>' = parked)]_vars
    /\ [](BothReturned => thread # parked[1].thread /\ output[1].id = thread)
    /\ []((BothReturned /\ question = parked[1].question) =>
            /\ [output[1] EXCEPT !.id = ""] = [parked[1].output[1] EXCEPT !.id = ""]
            /\ repair_count = parked[1].repair_count
            /\ sql_attempts = parked[1].sql_attempts
            /\ citations = parked[1].citations
            /\ trace_events = parked[1].trace_events
            /\ steps = parked[1].steps)

C24_Witness ==
    /\ BothReturned /\ question = parked[1].question
    /\ thread = "q2" /\ parked[1].thread = "q1"
    /\ repair_count = 1 /\ output[1].sql = Q_JOIN
    /\ output[1].citations = <<"Orders", "Products">>

\* C31: once generate_sql has run, sql_attempts = 1 + repair_count, and
\* repair_count is the number of repair_sql steps; a completed sql or hybrid
\* run has executed as many queries as sql_attempts; a rag run keeps both
\* counters at 0; the node after repair_sql is execute_sql.
C31_CountersAgree ==
    /\ [](("generate_sql" \in Range(steps)) => sql_attempts = 1 + repair_count)
    /\ [](repair_count = Count(steps, "repair_sql"))
    /\ []((Finished /\ route \in {"sql", "hybrid"}) =>
            /\ executeCalls = sql_attempts
            /\ Count(steps, "execute_sql") = sql_attempts)
    /\ [](route = "rag" => sql_attempts = 0 /\ repair_count = 0 /\ executeCalls = 0)
    /\ [][pc = "repair_sql" =>
            (pc' = "execute_sql" /\ steps' = Append(steps, "repair_sql"))]_vars

C31_Witness ==
    /\ pc = "returned" /\ route = "hybrid"
    /\ sql_attempts = 3 /\ repair_count = 2 /\ executeCalls = 3
    /\ sql_result[1].success /\ sql_result[1].rows > 0

\* the reasoning calls of the run for a task
CallsOf(task) == SelectSeq(lm_log, LAMBDA c : c.task = task)

\* C32: the plan node calls the constraint-extraction task exactly when
\* doc_context is not empty; in a sql run it makes no reasoning call and
\* sets constraints to "No document context available."; the context
\* given to generate_sql is never empty.
C32_PlanCallsIffContext ==
    /\ [][pc = "plan" =>
            /\ (doc_context # <<>>) =>
                   lm_log' = Append(lm_log,
                       LmCall("extract_constraints", <<question, doc_context>>))
            /\ (doc_context = <<>>) =>
                   (lm_log' = lm_log /\ constraints' = "No document context available.")
            /\ (route = "sql") =>
                   (lm_log' = lm_log /\ constraints' = "No document context available.")]_vars
    /\ [](\A i \in 1..Len(lm_log) :
            lm_log[i].task = "generate_sql" =>
                (lm_log[i].args[2] # <<>> /\ lm_log[i].args[2] # <<"">>))

C32_Witness ==
    /\ pc = "execute_sql" /\ route = "hybrid" /\ constraints = ""
    /\ Len(CallsOf("extract_constraints")) = 1
    /\ CallsOf("generate_sql")[1].args[2] = doc_context /\ doc_context # <<>>

\* the last outcome succeeded with at least one row
HasRows == sql_result # <<>> /\ sql_result[1].success /\ sql_result[1].rows > 0

\* C33: the sql_result context of the synthesis call holds data only when
\* the last outcome succeeded with at least one row: then the column names
\* and at most the first 10 rows; after exhausted retries and in a rag run
\* it holds nothing.
C33_SynthesisSqlContext ==
    \A i \in 1..Len(lm_log) :
        lm_log[i].task = "synthesize" =>
            LET ctx == lm_log[i].args[4]
            IN  /\ (ctx # <<>>) <=> HasRows
                /\ HasRows =>
                       /\ ctx[1] = sql_result[1].columns
                       /\ ctx[2] <= 10 /\ ctx[2] <= sql_result[1].rows
                       /\ (sql_result[1].rows >= 10 => ctx[2] = 10)
                       /\ (sql_result[1].rows < 10 => ctx[2] = sql_result[1].rows)
                /\ (route = "rag") => ctx = <<>>
                /\ (repair_count = 2 /\ ~HasRows) => ctx = <<>>

C33_Witness ==
    /\ pc = "validate" /\ HasRows /\ sql_result[1].rows = 12
    /\ CallsOf("synthesize")[1].args[4] = <<<<"ProductName">>, 10>>

\* synthesize is the next node or has run
AtOrAfterSynthesis == pc \in {"synthesize", "validate", "END", "returned"}

\* the citations that are not fragment identifiers
CitedTables == {citations[i] : i \in {j \in 1..Len(citations) : ~IsFragmentId(citations[j])}}

\* C34: when synthesize runs in a sql or hybrid run, the stored outcome is
\* the outcome of executing the stored query; the query and the outcome do
\* not change afterwards, so the sql of the result record is the query
\* last executed and the tables cited are the tables of that query.
C34_OutcomeOfStoredQuery ==
    /\ []((AtOrAfterSynthesis /\ route \in {"sql", "hybrid"}) =>
            /\ sql_result # <<>>
            /\ sql_result[1].success <=> (sql_query # Q_BAD)
            /\ sql_result[1].success =>
                   /\ sql_result[1].rows = RowCount(sql_query)
                   /\ sql_result[1].columns = Columns(sql_query)
                   /\ sql_result[1].tables_used = _extract_tables_from_sql(sql_query)
            /\ steps[Len(steps)] \in {"execute_sql", "synthesize", "validate"})
    /\ [][pc = "execute_sql" => (sql_query' = sql_query)]_vars
    /\ [][AtOrAfterSynthesis => (sql_query' = sql_query /\ sql_result' = sql_result)]_vars
    /\ []((pc = "returned" /\ route \in {"sql", "hybrid"}) =>
            /\ output[1].sql = sql_query
            /\ CitedTables = (IF sql_result[1].success
                              THEN Range(_extract_tables_from_sql(sql_query)) ELSE {}))

C34_Witness ==
    /\ pc = "returned" /\ route = "sql" /\ repair_count = 1
    /\ output[1].sql = Q_JOIN /\ sql_result[1].rows = 12
    /\ CitedTables = {"Orders", "Products"}

\* C35: the confidence of a completed run is at least 0.45, so a record of
\* the batch with confidence 0.0 is an error record of a failed run.
C35_ConfidenceFloor ==
    /\ (pc \in {"validate", "END", "returned"}) => confidence >= 45
    /\ (pc = "returned") => output[1].confidence >= 45
    /\ \A i \in 1..Len(results) :
           /\ ~IsErrorRecord(results[i]) => results[i].confidence >= 45
           /\ results[i].confidence = 0 => IsErrorRecord(results[i])
    /\ \A i \in 1..Len(written) :
           written[i].confidence = 0 => IsErrorRecord(written[i])

C35_Witness ==
    /\ pc = "done" /\ Len(written) = 2
    /\ ~IsErrorRecord(written[1]) /\ written[1].confidence = 45
    /\ IsErrorRecord(written[2]) /\ written[2].confidence = 0

\* C36: no node changes question or format_hint, which keep the values the
\* call was made with; route is written by the route node only, so the
\* plan decision reads the route the first edge was taken on.
C36_InputsImmutable ==
    /\ [][(pc \in NodeNames \cup {"END"}) =>
            (question' = question /\ format_hint' = format_hint)]_vars
    /\ [][(pc \in (NodeNames \ {"route"}) \cup {"END"}) => (route' = route)]_vars
    /\ [](\A i \in 1..Len(lm_log) :
            /\ lm_log[i].args[1] = lm_log[1].args[1]
            /\ lm_log[i].args[1] = question
            /\ lm_log[i].task = "synthesize" => lm_log[i].args[2] = format_hint)
    /\ [](trace_events # <<>> => trace_events[1].meta[1] = route)

C36_Witness ==
    /\ pc = "returned" /\ route = "hybrid" /\ repair_count = 1
    /\ question = QUESTION_TOP /\ format_hint = "float"
    /\ Len(lm_log) = 5 /\ lm_log[5].args[1] = QUESTION_TOP

\* C37: in a rag run every citation is a fragment identifier, in a sql run
\* every citation is a table name, and a run whose last query outcome
\* failed cites no table.
C37_CitationKindFollowsRoute ==
    (pc \in {"validate", "END", "returned"}) =>
        /\ (route = "rag") =>
               \A i \in 1..Len(citations) : IsFragmentId(citations[i])
        /\ (route = "sql") =>
               \A i \in 1..Len(citations) :
                   /\ ~IsFragmentId(citations[i])
                   /\ citations[i] \in {"Orders", "Products"}
        /\ (sql_result # <<>> /\ ~sql_result[1].success) => CitedTables = {}
        /\ (pc = "returned") => output[1].citations = citations

C37_Witness ==
    /\ pc = "returned" /\ route = "hybrid" /\ repair_count = 2
    /\ ~sql_result[1].success
    /\ citations = <<ChunkId(1)>>

====
